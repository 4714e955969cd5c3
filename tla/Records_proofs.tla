--------------------------- MODULE Records_proofs ---------------------------
(***************************************************************************)
(* Proofs about the parts that MCRecords runs side by side: the settings and *)
(* extensions of prospects (ProspectDesk, whose requests are `edit` here),   *)
(* the giveaway (Giveaway, with the bot's `queue` and the `bonuses` that     *)
(* staff gave), voice channels with their saved defaults (TempVoice), and    *)
(* the detail of a match (MatchDetail).  The first three keep what           *)
(* concurrent requests write consistent, or lose it only in a window that is *)
(* named, although none of their reads and writes is one transaction; the    *)
(* last makes of the rows of a round what happened in it.                    *)
(***************************************************************************)
EXTENDS MCRecords, Integers, Sequences, TLAPS, FiniteSetTheorems, SequenceTheorems,
        WellFoundedInduction

(***************************************************************************)
(* The settings of the prospects page.                                     *)
(***************************************************************************)

Edits ==
  [at : Prospects!Stages, patch : Prospects!Patch, value : Prospects!Config,
   user : Recruit \cup {None}, row : Row \cup {None}, prospect : Prospect \cup {None},
   paused : BOOLEAN \cup {None}, days : Days \cup {0}]

\* The inductive invariant.  What a request is going to write is valid as a whole, whatever
\* the row has become since it was read: so is what it leaves.
SettingsOK ==
  /\ edit \in [Slot -> Edits] /\ config \in Prospects!Config \cup {None}
  /\ config # None => Prospects!Valid(config)
  /\ \A c \in Slot : edit[c].at = "write" => Prospects!Valid(edit[c].value)

\* What the code's defaults are (DEFAULT_PROSPECT_CONFIG).
DefaultsOK == StartDefault \in Hours /\ AcceptDefault \in Hours /\ StartDefault <= AcceptDefault

LEMMA DefaultSettings ==
  ASSUME DefaultsOK
  PROVE  /\ Prospects!Defaults \in Prospects!Config /\ Prospects!Valid(Prospects!Defaults)
         /\ Prospects!Idle \in Edits /\ Prospects!Idle.at = "idle"
<1>1. Prospects!Defaults \in Prospects!Config /\ Prospects!Valid(Prospects!Defaults)
  BY DEF DefaultsOK, Prospects!Defaults, Prospects!Config, Prospects!Valid
<1>2. Prospects!NoPatch \in Prospects!Patch
  BY DEF Prospects!NoPatch, Prospects!Patch
<1>3. Prospects!Idle \in Edits
  BY <1>1, <1>2 DEF Prospects!Idle, Edits, Prospects!Stages
<1> QED
  BY <1>1, <1>3 DEF Prospects!Idle

\* A request that takes the step to q, and leaves the row alone.
LEMMA EditStep ==
  ASSUME SettingsOK, UNCHANGED config, NEW c \in Slot, NEW q \in Edits,
         q.at = "write" => Prospects!Valid(q.value), edit' = [edit EXCEPT ![c] = q]
  PROVE  SettingsOK'
BY DEF SettingsOK

LEMMA BeginStep ==
  ASSUME SettingsOK, NEW c \in Slot, NEW q \in Edits, q.at # "write", Prospects!Begin(c, q)
  PROVE  SettingsOK'
BY EditStep DEF Prospects!Begin

LEMMA EndStep ==
  ASSUME DefaultsOK, SettingsOK, UNCHANGED config, NEW c \in Slot, Prospects!End(c)
  PROVE  SettingsOK'
<1>1. edit' = [edit EXCEPT ![c] = Prospects!Idle]
  BY DEF Prospects!End
<1> QED
  BY <1>1, DefaultSettings, EditStep

LEMMA GotoStep ==
  ASSUME SettingsOK, UNCHANGED config, NEW c \in Slot, NEW at \in Prospects!Stages \ {"write"},
         Prospects!Goto(c, at)
  PROVE  SettingsOK'
<1> DEFINE q == [edit[c] EXCEPT !.at = at]
<1>1. edit[c] \in Edits
  BY DEF SettingsOK
<1>2. q \in Edits /\ q.at # "write"
  BY <1>1 DEF Edits
<1>3. edit' = [edit EXCEPT ![c] = q]
  BY DEF Prospects!Goto
<1> HIDE DEF q
<1> QED
  BY <1>2, <1>3, EditStep

LEMMA PatchedTypes ==
  ASSUME NEW v \in Prospects!Config, NEW patch \in Prospects!Patch
  PROVE  Prospects!Patched(v, patch) \in Prospects!Config
<1>1. DOMAIN v = {"start", "accept"} /\ v.start \in Hours /\ v.accept \in Hours
  BY DEF Prospects!Config
<1>2. patch.start \in Hours \cup {None} /\ patch.accept \in Hours \cup {None}
  BY DEF Prospects!Patch
<1> QED
  BY <1>1, <1>2 DEF Prospects!Patched, Prospects!Config

\* The check: what is to be written is valid, or the request is over.
LEMMA CheckedStep ==
  ASSUME DefaultsOK, SettingsOK, UNCHANGED config, NEW c \in Slot, NEW v \in Prospects!Config,
         Prospects!Checked(c, v)
  PROVE  SettingsOK'
<1> DEFINE value == Prospects!Patched(v, edit[c].patch)
           q == [edit[c] EXCEPT !.at = "write", !.value = value]
<1>1. edit[c] \in Edits /\ edit[c].patch \in Prospects!Patch
  BY DEF SettingsOK, Edits
<1>2. value \in Prospects!Config
  BY <1>1, PatchedTypes
<1> HIDE DEF value
<1>3. CASE Prospects!Valid(value)
  <2>1. edit' = [edit EXCEPT ![c] = q]
    BY <1>3 DEF Prospects!Checked, value
  <2>2. q \in Edits /\ q.value = value
    BY <1>1, <1>2 DEF Edits, Prospects!Stages
  <2> HIDE DEF q
  <2> QED
    BY <1>3, <2>1, <2>2, EditStep
<1>4. CASE ~Prospects!Valid(value)
  BY <1>4, EndStep DEF Prospects!Checked, value
<1> QED
  BY <1>3, <1>4

LEMMA ReadTypes ==
  ASSUME DefaultsOK, SettingsOK
  PROVE  Prospects!MapConfigRow(config) \in Prospects!Config
BY DEF DefaultsOK, SettingsOK, Prospects!MapConfigRow, Prospects!OrDefault, Prospects!Config,
       Prospects!Defaults

LEMMA WriteStep ==
  ASSUME DefaultsOK, SettingsOK, NEW c \in Slot, Prospects!WriteConfig(c)
  PROVE  SettingsOK'
<1>1. /\ edit[c].value \in Prospects!Config /\ Prospects!Valid(edit[c].value)
      /\ config' = edit[c].value /\ edit' = [edit EXCEPT ![c] = Prospects!Idle]
  BY DEF SettingsOK, Edits, Prospects!WriteConfig, Prospects!End
<1> QED
  BY <1>1, DefaultSettings DEF SettingsOK

\* The other requests of the page begin ...
LEMMA BeginSteps ==
  ASSUME DefaultsOK, SettingsOK, NEW c \in Slot,
         Prospects!PatchConfig(c) \/ Prospects!AddCooldown(c) \/ Prospects!ChangeCooldown(c)
           \/ Prospects!ChangePeriod(c)
  PROVE  SettingsOK'
<1>0. Prospects!Idle \in Edits
  BY DefaultSettings
<1>1. ASSUME NEW patch \in Prospects!Patch
      PROVE  [Prospects!Idle EXCEPT !.at = "read", !.patch = patch] \in Edits
  BY <1>0 DEF Edits, Prospects!Stages
<1>2. ASSUME NEW u \in Recruit
      PROVE  [Prospects!Idle EXCEPT !.at = "select", !.user = u] \in Edits
  BY <1>0 DEF Edits, Prospects!Stages
<1>3. ASSUME NEW r \in Row, NEW at \in {"find", "remove"}
      PROVE  [Prospects!Idle EXCEPT !.at = at, !.row = r] \in Edits
  BY <1>0 DEF Edits, Prospects!Stages
<1>4. ASSUME NEW p \in Prospect, NEW b \in {TRUE, FALSE, None}, NEW d \in Days \cup {0}
      PROVE  [Prospects!Idle EXCEPT !.at = "exists", !.prospect = p, !.paused = b, !.days = d] \in Edits
  BY <1>0 DEF Edits, Prospects!Stages
<1>5. CASE Prospects!PatchConfig(c)
  <2>1. PICK patch \in Prospects!Patch :
          Prospects!Begin(c, [Prospects!Idle EXCEPT !.at = "read", !.patch = patch])
    BY <1>5 DEF Prospects!PatchConfig
  <2> DEFINE q == [Prospects!Idle EXCEPT !.at = "read", !.patch = patch]
  <2>2. q \in Edits /\ q.at = "read"
    BY <1>0, <1>1 DEF Edits
  <2> HIDE DEF q
  <2> QED
    BY <2>1, <2>2, BeginStep DEF q
<1>6. CASE Prospects!AddCooldown(c)
  <2>1. PICK u \in Recruit : Prospects!Begin(c, [Prospects!Idle EXCEPT !.at = "select", !.user = u])
    BY <1>6 DEF Prospects!AddCooldown
  <2> DEFINE q == [Prospects!Idle EXCEPT !.at = "select", !.user = u]
  <2>2. q \in Edits /\ q.at = "select"
    BY <1>0, <1>2 DEF Edits
  <2> HIDE DEF q
  <2> QED
    BY <2>1, <2>2, BeginStep DEF q
<1>7. CASE Prospects!ChangeCooldown(c)
  <2>1. PICK r \in Row, at \in {"find", "remove"} :
          Prospects!Begin(c, [Prospects!Idle EXCEPT !.at = at, !.row = r])
    BY <1>7 DEF Prospects!ChangeCooldown
  <2> DEFINE q == [Prospects!Idle EXCEPT !.at = at, !.row = r]
  <2>2. q \in Edits /\ q.at # "write"
    BY <1>0, <1>3 DEF Edits
  <2> HIDE DEF q
  <2> QED
    BY <2>1, <2>2, BeginStep DEF q
<1>8. CASE Prospects!ChangePeriod(c)
  <2>1. PICK p \in Prospect, b \in {TRUE, FALSE, None}, d \in Days \cup {0} :
          Prospects!Begin(c, [Prospects!Idle EXCEPT !.at = "exists", !.prospect = p, !.paused = b, !.days = d])
    BY <1>8 DEF Prospects!ChangePeriod
  <2> DEFINE q == [Prospects!Idle EXCEPT !.at = "exists", !.prospect = p, !.paused = b, !.days = d]
  <2>2. q \in Edits /\ q.at = "exists"
    BY <1>0, <1>4 DEF Edits
  <2> HIDE DEF q
  <2> QED
    BY <2>1, <2>2, BeginStep DEF q
<1> QED
  BY <1>5, <1>6, <1>7, <1>8

\* ... and go on, without touching the settings.
LEMMA OtherSteps ==
  ASSUME DefaultsOK, SettingsOK, NEW c \in Slot,
         \/ Prospects!SelectCooldown(c) \/ Prospects!InsertCooldown(c) \/ Prospects!SetExpiry(c)
         \/ Prospects!FindCooldown(c) \/ Prospects!DeleteCooldown(c) \/ Prospects!Exists(c)
         \/ Prospects!Pause(c) \/ Prospects!PauseEvent(c) \/ Prospects!Extend(c)
         \/ Prospects!ExtendEvent(c) \/ Prospects!Fails(c)
  PROVE  SettingsOK'
<1>1. CASE Prospects!SelectCooldown(c)
  <2>1. UNCHANGED config
    BY <1>1 DEF Prospects!SelectCooldown
  <2>2. ASSUME NEW r \in Row, edit' = [edit EXCEPT ![c].at = "update", ![c].row = r]
        PROVE  SettingsOK'
    <3> DEFINE q == [edit[c] EXCEPT !.at = "update", !.row = r]
    <3>1. edit[c] \in Edits
      BY DEF SettingsOK
    <3>2. q \in Edits /\ q.at = "update"
      BY <3>1 DEF Edits, Prospects!Stages
    <3>3. edit' = [edit EXCEPT ![c] = q]
      BY <2>2
    <3> HIDE DEF q
    <3> QED
      BY <2>1, <3>2, <3>3, EditStep
  <2>3. Prospects!Goto(c, "insert") \/ \E r \in Row : edit' = [edit EXCEPT ![c].at = "update", ![c].row = r]
    BY <1>1 DEF Prospects!SelectCooldown, Prospects!Active
  <2> QED
    BY <2>1, <2>2, <2>3, GotoStep DEF Prospects!Stages
<1>2. CASE \/ Prospects!InsertCooldown(c) \/ Prospects!SetExpiry(c) \/ Prospects!DeleteCooldown(c)
           \/ Prospects!ExtendEvent(c) \/ Prospects!Fails(c)
  <2>1. UNCHANGED config /\ Prospects!End(c)
    BY <1>2 DEF Prospects!InsertCooldown, Prospects!SetExpiry, Prospects!DeleteCooldown,
                Prospects!ExtendEvent, Prospects!Fails
  <2> QED
    BY <2>1, EndStep
<1>3. CASE \/ Prospects!FindCooldown(c) \/ Prospects!Exists(c) \/ Prospects!Pause(c)
           \/ Prospects!PauseEvent(c) \/ Prospects!Extend(c)
  <2>1. UNCHANGED config
    BY <1>3 DEF Prospects!FindCooldown, Prospects!Exists, Prospects!Pause, Prospects!PauseEvent,
                Prospects!Extend
  <2>2. \/ Prospects!End(c)
        \/ \E at \in Prospects!Stages \ {"write"} : Prospects!Goto(c, at)
    BY <1>3 DEF Prospects!FindCooldown, Prospects!Exists, Prospects!Pause, Prospects!PauseEvent,
                Prospects!ExtendOrEnd, Prospects!Extend, Prospects!Stages
  <2> QED
    BY <2>1, <2>2, EndStep, GotoStep
<1> QED
  BY <1>1, <1>2, <1>3

LEMMA SettingsStep ==
  ASSUME DefaultsOK, SettingsOK, [Prospects!Next]_(Prospects!vars)
  PROVE  SettingsOK'
<1>1. CASE UNCHANGED Prospects!vars
  BY <1>1 DEF Prospects!vars, SettingsOK
<1>2. ASSUME NEW r \in Row, Prospects!Expire(r)  PROVE SettingsOK'
  BY <1>2 DEF Prospects!Expire, SettingsOK
<1>3. ASSUME NEW c \in Slot, Prospects!ReadConfig(c)  PROVE SettingsOK'
  BY <1>3, ReadTypes, CheckedStep DEF Prospects!ReadConfig
<1>4. ASSUME NEW c \in Slot, Prospects!ReadFails(c)  PROVE SettingsOK'
  BY <1>4, DefaultSettings, CheckedStep DEF Prospects!ReadFails
<1> QED
  BY <1>1, <1>2, <1>3, <1>4, WriteStep, BeginSteps, OtherSteps DEF Prospects!Next

\* Settings that several people patch at once stay valid (PATCH /prospects/config with
\* validateProspectConfigPatch), for any number of requests, values of the settings and
\* failing statements: the hours of the start never exceed those of the end, because each
\* request writes all the fields it has checked.
THEOREM SettingsStayValid ==
  ASSUME DefaultsOK
  PROVE  Prospects!Spec => []ConfigIsValid
<1>1. Prospects!Init => SettingsOK
  BY DefaultSettings DEF Prospects!Init, SettingsOK
<1>2. SettingsOK /\ [Prospects!Next]_(Prospects!vars) => SettingsOK'
  BY SettingsStep
<1>3. SettingsOK => ConfigIsValid
  BY DEF SettingsOK, ConfigIsValid, Prospects!ConfigIsValid
<1> QED
  BY <1>1, <1>2, <1>3, PTL DEF Prospects!Spec

(***************************************************************************)
(* The periods of prospects.  The sum over the requests between their two   *)
(* statements is a fold; that a finite set has it, and what one element       *)
(* more makes of it, is by induction: the subsets for which it fails would     *)
(* have one without a smaller one.                                          *)
(***************************************************************************)

DaysOf(q, S) == Prospects!MapThenSumSet(LAMBDA c : q[c].days, S)

\* The function that the fold is defined by, on the subsets of S in D.
First(s) == CHOOSE x \in s : TRUE
Rest(q, F, s) == IF s = {} THEN 0 ELSE q[First(s)].days + F[s \ {First(s)}]
SumsOn(q, D, F) == F = [s \in D |-> Rest(q, F, s)]

LEMMA SumDef ==
  ASSUME NEW q, NEW S
  PROVE  DaysOf(q, S) = (CHOOSE F : SumsOn(q, SUBSET S, F))[S]
  BY DEF DaysOf, Prospects!MapThenSumSet, Prospects!MapThenFoldSet, SumsOn, Rest, First

LEMMA LeastNumber ==
  ASSUME NEW B, B \subseteq Nat, B # {}
  PROVE  \E n \in B : \A m \in B : n <= m
<1>1. PICK n \in B : \A m \in B : ~(<<m, n>> \in OpToRel(<, Nat))
  BY NatLessThanWellFounded, WFMin
<1>2. \A m \in B : ~(m < n)
  BY <1>1 DEF OpToRel
<1> QED
  BY <1>2

\* Induction: a set of subsets of a finite set that fails somewhere fails first.
LEMMA LeastSubset ==
  ASSUME NEW S, IsFiniteSet(S), NEW B, B \subseteq SUBSET S, B # {}
  PROVE  \E s \in B : \A x \in s : s \ {x} \notin B
<1> DEFINE N == {Cardinality(s) : s \in B}
<1>1. \A s \in B : IsFiniteSet(s) /\ Cardinality(s) \in Nat
  BY FS_Subset, FS_CardinalityType
<1>2. PICK n \in N : \A m \in N : n <= m
  <2>1. N \subseteq Nat /\ N # {}
    BY <1>1
  <2> HIDE DEF N
  <2> QED
    BY <2>1, LeastNumber
<1>3. PICK s \in B : Cardinality(s) = n
  BY <1>2
<1>4. ASSUME NEW x \in s, s \ {x} \in B  PROVE FALSE
  <2>1. Cardinality(s \ {x}) = Cardinality(s) - 1
    BY <1>1, FS_RemoveElement
  <2>2. n <= Cardinality(s \ {x})
    BY <1>2, <1>4
  <2> QED
    BY <1>1, <1>3, <2>1, <2>2
<1> QED
  BY <1>4

LEMMA FirstIn ==
  ASSUME NEW s, s # {}
  PROVE  First(s) \in s
  BY DEF First

\* Such a function exists, for the subsets of any finite set.
LEMMA SumsExist ==
  ASSUME NEW q, NEW S, IsFiniteSet(S)
  PROVE  \E F : SumsOn(q, SUBSET S, F)
<1> DEFINE D(n) == {s \in SUBSET S : Cardinality(s) <= n}
           B == {n \in Nat : ~\E F : SumsOn(q, D(n), F)}
<1>1. \A s \in SUBSET S : IsFiniteSet(s) /\ Cardinality(s) \in Nat
  BY FS_Subset, FS_CardinalityType
<1>2. \A s \in SUBSET S : s # {} => /\ s \ {First(s)} \in SUBSET S
                                    /\ Cardinality(s \ {First(s)}) = Cardinality(s) - 1
  BY <1>1, FirstIn, FS_RemoveElement
<1>3. B = {}
  <2> SUFFICES ASSUME B # {}  PROVE FALSE
    OBVIOUS
  <2>1. PICK n \in B : \A m \in B : n <= m
    BY LeastNumber
  <2>2. n \in Nat /\ ~\E F : SumsOn(q, D(n), F)
    BY <2>1
  <2>3. CASE n = 0
    <3> DEFINE F == [s \in D(n) |-> 0]
    <3>1. \A s \in D(n) : s = {}
      BY <1>1, <2>3, FS_EmptySet
    <3>2. SumsOn(q, D(n), F)
      BY <3>1 DEF SumsOn, Rest
    <3> QED
      BY <2>2, <3>2
  <2>4. CASE n # 0
    <3>1. n - 1 \in Nat /\ n - 1 \notin B
      <4> HIDE DEF B
      <4> QED
        BY <2>1, <2>2, <2>4
    <3>2. PICK F : SumsOn(q, D(n - 1), F)
      BY <3>1
    <3> DEFINE G == [s \in D(n) |-> Rest(q, F, s)]
    <3>3. \A s \in D(n - 1) : F[s] = Rest(q, F, s)
      BY <3>2 DEF SumsOn
    <3>4. ASSUME NEW s \in D(n)  PROVE Rest(q, F, s) = Rest(q, G, s)
      <4>1. CASE s = {}
        BY <4>1 DEF Rest
      <4>2. CASE s # {}
        <5>1. s \ {First(s)} \in D(n - 1) /\ s \ {First(s)} \in D(n)
          BY <1>1, <1>2, <2>2, <4>2
        <5>2. G[s \ {First(s)}] = F[s \ {First(s)}]
          BY <3>3, <5>1
        <5> QED
          BY <4>2, <5>2 DEF Rest
      <4> QED
        BY <4>1, <4>2
    <3>5. SumsOn(q, D(n), G)
      BY <3>4 DEF SumsOn
    <3> QED
      BY <2>2, <3>5
  <2> QED
    BY <2>3, <2>4
<1>4. D(Cardinality(S)) = SUBSET S /\ Cardinality(S) \in Nat
  BY FS_Subset, FS_CardinalityType
<1>5. \E F : SumsOn(q, D(Cardinality(S)), F)
  BY <1>3, <1>4
<1> QED
  BY <1>4, <1>5

\* What it says of a set depends on the days of its elements alone.
Agree(q, r, U) == \A x \in U : q[x].days = r[x].days

LEMMA SumsAgree ==
  ASSUME NEW S, IsFiniteSet(S), NEW T, NEW q, NEW r, NEW F, NEW G,
         SumsOn(q, SUBSET S, F), SumsOn(r, SUBSET T, G),
         NEW U, U \subseteq S, U \subseteq T, Agree(q, r, U)
  PROVE  F[U] = G[U]
<1> DEFINE B == {s \in SUBSET U : F[s] # G[s]}
<1>1. B = {}
  <2> SUFFICES ASSUME B # {}  PROVE FALSE
    OBVIOUS
  <2>1. IsFiniteSet(U)
    BY FS_Subset
  <2>2. PICK s \in B : \A x \in s : s \ {x} \notin B
    BY <2>1, LeastSubset
  <2>3. F[s] = Rest(q, F, s) /\ G[s] = Rest(r, G, s)
    BY DEF SumsOn
  <2>4. CASE s = {}
    BY <2>2, <2>3, <2>4 DEF Rest
  <2>5. CASE s # {}
    <3>1. First(s) \in s
      BY <2>5, FirstIn
    <3>2. F[s \ {First(s)}] = G[s \ {First(s)}] /\ q[First(s)].days = r[First(s)].days
      BY <2>2, <3>1 DEF Agree
    <3> QED
      BY <2>2, <2>3, <2>5, <3>2 DEF Rest
  <2> QED
    BY <2>4, <2>5
<1> QED
  BY <1>1

LEMMA SumsNumber ==
  ASSUME NEW S, IsFiniteSet(S), NEW q, NEW F, SumsOn(q, SUBSET S, F), \A x \in S : q[x].days \in Int,
         NEW U \in SUBSET S
  PROVE  F[U] \in Int
<1> DEFINE B == {s \in SUBSET S : F[s] \notin Int}
<1>1. B = {}
  <2> SUFFICES ASSUME B # {}  PROVE FALSE
    OBVIOUS
  <2>1. PICK s \in B : \A x \in s : s \ {x} \notin B
    BY LeastSubset
  <2>2. F[s] = Rest(q, F, s)
    BY DEF SumsOn
  <2>3. CASE s = {}
    BY <2>1, <2>2, <2>3 DEF Rest
  <2>4. CASE s # {}
    <3>1. First(s) \in s
      BY <2>4, FirstIn
    <3>2. F[s \ {First(s)}] \in Int /\ q[First(s)].days \in Int
      BY <2>1, <3>1
    <3> QED
      BY <2>1, <2>2, <2>4, <3>2 DEF Rest
  <2> QED
    BY <2>3, <2>4
<1> QED
  BY <1>1

\* Any element may be taken first.
LEMMA SumsTake ==
  ASSUME NEW S, IsFiniteSet(S), NEW q, NEW F, SumsOn(q, SUBSET S, F), \A x \in S : q[x].days \in Int,
         NEW U \in SUBSET S, NEW c \in U
  PROVE  F[U] = q[c].days + F[U \ {c}]
<1> DEFINE B == {s \in SUBSET S : \E x \in s : F[s] # q[x].days + F[s \ {x}]}
<1>1. B = {}
  <2> SUFFICES ASSUME B # {}  PROVE FALSE
    OBVIOUS
  <2>1. PICK s \in B : \A x \in s : s \ {x} \notin B
    BY LeastSubset
  <2>2. PICK x \in s : F[s] # q[x].days + F[s \ {x}]
    BY <2>1
  <2> DEFINE y == First(s)
  <2>3. y \in s /\ F[s] = q[y].days + F[s \ {y}]
    BY <2>2, FirstIn DEF SumsOn, Rest
  <2> HIDE DEF y
  <2>4. x # y
    BY <2>2, <2>3
  <2>5. /\ F[s \ {y}] = q[x].days + F[(s \ {y}) \ {x}]
        /\ F[s \ {x}] = q[y].days + F[(s \ {x}) \ {y}]
    BY <2>1, <2>2, <2>3, <2>4
  <2>6. (s \ {y}) \ {x} = (s \ {x}) \ {y}
    OBVIOUS
  <2>7. F[(s \ {x}) \ {y}] \in Int /\ q[x].days \in Int /\ q[y].days \in Int
    BY <2>2, <2>3, SumsNumber
  <2> DEFINE v == F[(s \ {x}) \ {y}]
  <2>8. /\ F[s] = q[y].days + (q[x].days + v) /\ F[s \ {x}] = q[y].days + v
        /\ v \in Int /\ F[s] # q[x].days + F[s \ {x}]
    BY <2>2, <2>3, <2>5, <2>6, <2>7
  <2> HIDE DEF v
  <2> QED
    BY <2>7, <2>8
<1> QED
  BY <1>1

LEMMA DaysOfSums ==
  ASSUME NEW q, NEW S, IsFiniteSet(S)
  PROVE  \E F : SumsOn(q, SUBSET S, F) /\ DaysOf(q, S) = F[S]
BY SumDef, SumsExist

\* What the proofs below need of the sum: its elements alone matter, and one more is added.
LEMMA DaysNone == \A q : DaysOf(q, {}) = 0
<1>1. ASSUME NEW q  PROVE DaysOf(q, {}) = 0
  <2>1. PICK F : SumsOn(q, SUBSET {}, F) /\ DaysOf(q, {}) = F[{}]
    BY DaysOfSums, FS_EmptySet
  <2> QED
    BY <2>1 DEF SumsOn, Rest
<1> QED
  BY <1>1

LEMMA DaysSame ==
  ASSUME NEW q, NEW r, NEW S, IsFiniteSet(S), \A x \in S : q[x].days = r[x].days
  PROVE  DaysOf(q, S) = DaysOf(r, S)
<1>1. PICK F : SumsOn(q, SUBSET S, F) /\ DaysOf(q, S) = F[S]
  BY DaysOfSums
<1>2. PICK G : SumsOn(r, SUBSET S, G) /\ DaysOf(r, S) = G[S]
  BY DaysOfSums
<1> QED
  BY <1>1, <1>2, SumsAgree DEF Agree

LEMMA DaysNumber ==
  ASSUME NEW q, NEW S, IsFiniteSet(S), \A x \in S : q[x].days \in Int
  PROVE  DaysOf(q, S) \in Int
<1>1. PICK F : SumsOn(q, SUBSET S, F) /\ DaysOf(q, S) = F[S]
  BY DaysOfSums
<1>2. S \in SUBSET S
  OBVIOUS
<1> QED
  BY <1>1, <1>2, SumsNumber

LEMMA DaysMore ==
  ASSUME NEW q, NEW r, NEW S, IsFiniteSet(S), NEW c, c \notin S,
         \A x \in S : q[x].days = r[x].days, \A x \in S \cup {c} : r[x].days \in Int
  PROVE  DaysOf(r, S \cup {c}) = r[c].days + DaysOf(q, S)
<1> DEFINE T == S \cup {c}
<1>1. IsFiniteSet(T) /\ c \in T /\ T \ {c} = S
  BY FS_AddElement
<1>2. PICK F : SumsOn(q, SUBSET S, F) /\ DaysOf(q, S) = F[S]
  BY DaysOfSums
<1>3. PICK G : SumsOn(r, SUBSET T, G) /\ DaysOf(r, T) = G[T]
  BY <1>1, DaysOfSums
<1>4. F[S] = G[S]
  <2>1. S \subseteq S /\ S \subseteq T /\ Agree(q, r, S)
    BY DEF Agree
  <2>2. SumsOn(q, SUBSET S, F) /\ SumsOn(r, SUBSET T, G)
    BY <1>2, <1>3
  <2> HIDE DEF T
  <2> QED
    BY <2>1, <2>2, SumsAgree
<1>5. G[T] = r[c].days + G[T \ {c}]
  <2>1. T \in SUBSET T /\ \A x \in T : r[x].days \in Int
    OBVIOUS
  <2> HIDE DEF T
  <2> QED
    BY <1>1, <1>3, <2>1, SumsTake
<1> QED
  BY <1>1, <1>2, <1>3, <1>4, <1>5

\* Extensions are whole numbers of days, and requests in flight are finitely many.
PeriodBounds == DefaultsOK /\ Days \subseteq Nat /\ IsFiniteSet(Slot)

Waiting(p) == {c \in Slot : edit[c].at = "extendEvent" /\ edit[c].prospect = p}
Added(p) == extra[p] = logged[p] + lost[p] + DaysOf(edit, Waiting(p))

\* The inductive invariant.
PeriodOK ==
  /\ SettingsOK
  /\ extra \in [Prospect -> Int] /\ logged \in [Prospect -> Int] /\ lost \in [Prospect -> Int]
  /\ \A p \in Prospect : Added(p)

LEMMA WholeDays ==
  ASSUME PeriodBounds, NEW q \in Edits
  PROVE  q.days \in Int
<1>1. q.days \in Days \cup {0}
  BY DEF Edits
<1>2. \A d \in Days \cup {0} : d \in Int
  BY DEF PeriodBounds
<1> QED
  BY <1>1, <1>2

LEMMA WaitingFinite ==
  ASSUME PeriodBounds, SettingsOK
  PROVE  /\ \A p : IsFiniteSet(Waiting(p))
         /\ \A c \in Slot : edit[c].days \in Int
         /\ \A p : DaysOf(edit, Waiting(p)) \in Int
<1>1. \A p : Waiting(p) \subseteq Slot /\ IsFiniteSet(Waiting(p))
  BY FS_Subset DEF Waiting, PeriodBounds
<1>2. \A c \in Slot : edit[c].days \in Int
  BY WholeDays DEF SettingsOK
<1>3. \A p : DaysOf(edit, Waiting(p)) \in Int
  BY <1>1, <1>2, DaysNumber
<1> QED
  BY <1>1, <1>2, <1>3

\* A step that no extension takes part in.
LEMMA PeriodKept ==
  ASSUME PeriodBounds, PeriodOK, SettingsOK', UNCHANGED <<extra, logged, lost>>,
         \A c \in Slot : \/ edit'[c] = edit[c]
                         \/ edit[c].at # "extendEvent" /\ edit'[c].at # "extendEvent"
  PROVE  PeriodOK'
<1>1. ASSUME NEW p \in Prospect  PROVE Added(p)'
  <2>1. Waiting(p)' = Waiting(p) /\ \A c \in Waiting(p) : edit'[c] = edit[c]
    BY DEF Waiting
  <2>2. DaysOf(edit', Waiting(p)) = DaysOf(edit, Waiting(p))
    BY <2>1, WaitingFinite, DaysSame DEF PeriodOK
  <2>3. DaysOf(edit, Waiting(p))' = DaysOf(edit', Waiting(p)')
    OBVIOUS
  <2> QED
    BY <2>1, <2>2, <2>3 DEF Added, PeriodOK
<1> QED
  BY <1>1 DEF PeriodOK

\* One request more, or less, is between its two statements.
LEMMA OneMore ==
  ASSUME PeriodBounds, SettingsOK, SettingsOK', NEW c \in Slot, edit[c].at # "extendEvent",
         edit'[c].at = "extendEvent", \A d \in Slot : d # c => edit'[d] = edit[d], NEW p
  PROVE  DaysOf(edit, Waiting(p))' = DaysOf(edit, Waiting(p))
                                       + (IF edit'[c].prospect = p THEN edit'[c].days ELSE 0)
<1> DEFINE W == Waiting(p)
<1>0. DaysOf(edit, Waiting(p))' = DaysOf(edit', Waiting(p)')
  OBVIOUS
<1>1. /\ IsFiniteSet(W) /\ c \notin W /\ W \subseteq Slot /\ \A d \in W : edit'[d] = edit[d]
      /\ Waiting(p)' = IF edit'[c].prospect = p THEN W \cup {c} ELSE W
  <2>1. IsFiniteSet(W)
    BY WaitingFinite
  <2> QED
    BY <2>1 DEF Waiting
<1>2. DaysOf(edit, W) \in Int /\ \A d \in Slot : edit'[d].days \in Int
  <2>1. \A d \in Slot : edit'[d].days \in Int
    BY WholeDays DEF SettingsOK
  <2> QED
    BY <2>1, WaitingFinite
<1> HIDE DEF W
<1>3. CASE edit'[c].prospect = p
  <2>1. DaysOf(edit', W \cup {c}) = edit'[c].days + DaysOf(edit, W)
    BY <1>1, <1>2, DaysMore
  <2> QED
    BY <1>0, <1>1, <1>2, <1>3, <2>1 DEF W
<1>4. CASE edit'[c].prospect # p
  <2>1. DaysOf(edit', W) = DaysOf(edit, W)
    BY <1>1, DaysSame
  <2> QED
    BY <1>0, <1>1, <1>2, <1>4, <2>1 DEF W
<1> QED
  BY <1>3, <1>4

LEMMA OneLess ==
  ASSUME PeriodBounds, SettingsOK, NEW c \in Slot, edit[c].at = "extendEvent",
         edit'[c].at # "extendEvent", \A d \in Slot : d # c => edit'[d] = edit[d], NEW p
  PROVE  DaysOf(edit, Waiting(p)) = DaysOf(edit, Waiting(p))'
                                      + (IF edit[c].prospect = p THEN edit[c].days ELSE 0)
         /\ DaysOf(edit, Waiting(p))' \in Int
<1> DEFINE W == Waiting(p)'
<1>0. DaysOf(edit, Waiting(p))' = DaysOf(edit', W)
  OBVIOUS
<1>1. /\ c \notin W /\ W \subseteq Slot /\ \A d \in W : edit'[d] = edit[d]
      /\ Waiting(p) = IF edit[c].prospect = p THEN W \cup {c} ELSE W
  BY DEF Waiting
<1>2. IsFiniteSet(W) /\ \A d \in Slot : edit[d].days \in Int
  <2>1. IsFiniteSet(Slot)
    BY DEF PeriodBounds
  <2> QED
    BY <1>1, <2>1, WaitingFinite, FS_Subset
<1> HIDE DEF W
<1>3. DaysOf(edit', W) = DaysOf(edit, W) /\ DaysOf(edit, W) \in Int
  BY <1>1, <1>2, DaysSame, DaysNumber
<1>4. CASE edit[c].prospect = p
  <2>1. DaysOf(edit, W \cup {c}) = edit[c].days + DaysOf(edit, W)
    BY <1>1, <1>2, DaysMore
  <2> QED
    BY <1>0, <1>1, <1>2, <1>3, <1>4, <2>1
<1>5. CASE edit[c].prospect # p
  BY <1>0, <1>1, <1>2, <1>3, <1>5
<1> QED
  BY <1>4, <1>5

LEMMA PeriodStep ==
  ASSUME PeriodBounds, PeriodOK, [Prospects!Next]_(Prospects!vars)
  PROVE  PeriodOK'
<1> DefaultsOK
  BY DEF PeriodBounds
<1>0. SettingsOK /\ SettingsOK' /\ edit = [d \in Slot |-> edit[d]] /\ edit' = [d \in Slot |-> edit'[d]]
  BY SettingsStep DEF PeriodOK, SettingsOK
<1>1. CASE UNCHANGED Prospects!vars
  BY <1>0, <1>1, PeriodKept DEF Prospects!vars, Prospects!period
<1>2. ASSUME NEW r \in Row, Prospects!Expire(r)  PROVE PeriodOK'
  BY <1>0, <1>2, PeriodKept DEF Prospects!Expire, Prospects!period
<1>3. ASSUME NEW c \in Slot, UNCHANGED <<extra, logged, lost>>, edit[c].at # "extendEvent",
             edit'[c].at # "extendEvent", \A d \in Slot : d # c => edit'[d] = edit[d]
      PROVE  PeriodOK'
  BY <1>0, <1>3, PeriodKept
<1>4. ASSUME NEW c \in Slot,
             \/ Prospects!PatchConfig(c) \/ Prospects!AddCooldown(c) \/ Prospects!ChangeCooldown(c)
             \/ Prospects!ChangePeriod(c)
      PROVE  PeriodOK'
  <2>1. PICK q : Prospects!Begin(c, q) /\ q.at # "extendEvent"
    <3>1. Prospects!Idle \in Edits
      BY DefaultSettings
    <3>2. CASE Prospects!PatchConfig(c)
      <4>1. PICK patch \in Prospects!Patch :
              Prospects!Begin(c, [Prospects!Idle EXCEPT !.at = "read", !.patch = patch])
        BY <3>2 DEF Prospects!PatchConfig
      <4> DEFINE q == [Prospects!Idle EXCEPT !.at = "read", !.patch = patch]
      <4>2. q.at # "extendEvent"
        BY <3>1 DEF Edits
      <4> HIDE DEF q
      <4> QED
        BY <4>1, <4>2 DEF q
    <3>3. CASE Prospects!AddCooldown(c)
      <4>1. PICK u \in Recruit :
              Prospects!Begin(c, [Prospects!Idle EXCEPT !.at = "select", !.user = u])
        BY <3>3 DEF Prospects!AddCooldown
      <4> DEFINE q == [Prospects!Idle EXCEPT !.at = "select", !.user = u]
      <4>2. q.at # "extendEvent"
        BY <3>1 DEF Edits
      <4> HIDE DEF q
      <4> QED
        BY <4>1, <4>2 DEF q
    <3>4. CASE Prospects!ChangeCooldown(c)
      <4>1. PICK r \in Row, at \in {"find", "remove"} :
              Prospects!Begin(c, [Prospects!Idle EXCEPT !.at = at, !.row = r])
        BY <3>4 DEF Prospects!ChangeCooldown
      <4> DEFINE q == [Prospects!Idle EXCEPT !.at = at, !.row = r]
      <4>2. q.at # "extendEvent"
        BY <3>1 DEF Edits
      <4> HIDE DEF q
      <4> QED
        BY <4>1, <4>2 DEF q
    <3>5. CASE Prospects!ChangePeriod(c)
      <4>1. PICK p \in Prospect, b \in {TRUE, FALSE, None}, d \in Days \cup {0} :
              Prospects!Begin(c, [Prospects!Idle EXCEPT !.at = "exists", !.prospect = p, !.paused = b, !.days = d])
        BY <3>5 DEF Prospects!ChangePeriod
      <4> DEFINE q == [Prospects!Idle EXCEPT !.at = "exists", !.prospect = p, !.paused = b, !.days = d]
      <4>2. q.at # "extendEvent"
        BY <3>1 DEF Edits
      <4> HIDE DEF q
      <4> QED
        BY <4>1, <4>2 DEF q
    <3> QED
      BY <1>4, <3>2, <3>3, <3>4, <3>5
  <2>2. /\ UNCHANGED <<extra, logged, lost>> /\ edit[c].at # "extendEvent"
        /\ edit' = [edit EXCEPT ![c] = q]
    BY <2>1, DefaultSettings DEF Prospects!Begin, Prospects!period
  <2>3. edit'[c] = q /\ \A d \in Slot : d # c => edit'[d] = edit[d]
    BY <1>0, <2>2
  <2> QED
    BY <1>3, <2>1, <2>2, <2>3
<1>5. ASSUME NEW c \in Slot,
             \/ Prospects!ReadConfig(c) \/ Prospects!ReadFails(c) \/ Prospects!WriteConfig(c)
             \/ Prospects!SelectCooldown(c) \/ Prospects!InsertCooldown(c) \/ Prospects!SetExpiry(c)
             \/ Prospects!FindCooldown(c) \/ Prospects!DeleteCooldown(c)
             \/ Prospects!Exists(c) \/ Prospects!Pause(c) \/ Prospects!PauseEvent(c)
      PROVE  PeriodOK'
  <2>1. UNCHANGED <<extra, logged, lost>> /\ edit[c].at # "extendEvent"
    BY <1>5 DEF Prospects!ReadConfig, Prospects!ReadFails, Prospects!WriteConfig,
         Prospects!SelectCooldown, Prospects!InsertCooldown, Prospects!SetExpiry,
         Prospects!FindCooldown, Prospects!DeleteCooldown, Prospects!Exists, Prospects!Pause,
         Prospects!PauseEvent, Prospects!period
  <2>2. \/ edit' = [edit EXCEPT ![c] = Prospects!Idle]
        \/ \E at \in Prospects!Stages \ {"extendEvent"} : edit' = [edit EXCEPT ![c].at = at]
        \/ \E r \in Row : edit' = [edit EXCEPT ![c].at = "update", ![c].row = r]
        \/ \E v : edit' = [edit EXCEPT ![c].at = "write", ![c].value = v]
    BY <1>5 DEF Prospects!ReadConfig, Prospects!ReadFails, Prospects!WriteConfig,
         Prospects!SelectCooldown, Prospects!InsertCooldown, Prospects!SetExpiry,
         Prospects!FindCooldown, Prospects!DeleteCooldown, Prospects!Exists, Prospects!Pause,
         Prospects!PauseEvent, Prospects!Checked, Prospects!End, Prospects!Goto,
         Prospects!ExtendOrEnd, Prospects!Active, Prospects!Stages
  <2>3. edit'[c].at # "extendEvent" /\ \A d \in Slot : d # c => edit'[d] = edit[d]
    <3>1. edit[c] \in Edits
      BY <1>0 DEF SettingsOK
    <3> QED
      BY <1>0, <2>2, <3>1, DefaultSettings DEF Edits
  <2> QED
    BY <1>3, <2>1, <2>3
<1>6. ASSUME NEW c \in Slot, Prospects!Extend(c)  PROVE PeriodOK'
  <2> DEFINE p == edit[c].prospect
  <2>1. /\ edit[c].at = "extend" /\ UNCHANGED <<logged, lost>>
        /\ extra' = [extra EXCEPT ![p] = extra[p] + edit[c].days]
        /\ edit' = [edit EXCEPT ![c].at = "extendEvent"]
    BY <1>6 DEF Prospects!Extend, Prospects!Longer, Prospects!Goto
  <2>2. /\ edit'[c].at = "extendEvent" /\ edit'[c].prospect = p /\ edit'[c].days = edit[c].days
        /\ \A d \in Slot : d # c => edit'[d] = edit[d]
    <3>1. edit[c] \in Edits
      BY <1>0 DEF SettingsOK
    <3> QED
      BY <1>0, <2>1, <3>1 DEF Edits
  <2>3. edit[c].days \in Int
    BY <1>0, WaitingFinite
  <2>4. /\ extra' \in [Prospect -> Int]
        /\ \A q \in Prospect : extra'[q] = extra[q] + (IF q = p THEN edit[c].days ELSE 0)
    <3>1. extra \in [Prospect -> Int]
      BY DEF PeriodOK
    <3>2. extra' = [extra EXCEPT ![p] = extra[p] + edit[c].days]
      BY <2>1
    <3> HIDE DEF p
    <3>3. CASE p \in Prospect
      BY <2>3, <3>1, <3>2, <3>3
    <3>4. CASE p \notin Prospect
      <4>1. extra' = extra
        BY <3>1, <3>2, <3>4
      <4> QED
        BY <3>1, <3>4, <4>1
    <3> QED
      BY <3>3, <3>4
  <2> HIDE DEF p
  <2>5. ASSUME NEW q \in Prospect  PROVE Added(q)'
    <3>1. DaysOf(edit, Waiting(q))' = DaysOf(edit, Waiting(q)) + (IF p = q THEN edit[c].days ELSE 0)
      BY <1>0, <2>1, <2>2, OneMore
    <3>2. DaysOf(edit, Waiting(q)) \in Int /\ extra[q] \in Int /\ logged[q] \in Int /\ lost[q] \in Int
      BY <1>0, WaitingFinite DEF PeriodOK
    <3>3. extra[q] = logged[q] + lost[q] + DaysOf(edit, Waiting(q))
      BY DEF PeriodOK, Added
    <3>4. extra'[q] = logged'[q] + lost'[q] + DaysOf(edit, Waiting(q))'
      BY <2>1, <2>3, <2>4, <3>1, <3>2, <3>3
    <3> QED
      BY <3>4 DEF Added
  <2> QED
    BY <1>0, <2>1, <2>4, <2>5 DEF PeriodOK
<1>7. ASSUME NEW c \in Slot, Prospects!ExtendEvent(c) \/ Prospects!Fails(c)  PROVE PeriodOK'
  <2> DEFINE p == edit[c].prospect
  <2>1. UNCHANGED extra /\ edit' = [edit EXCEPT ![c] = Prospects!Idle]
    BY <1>7 DEF Prospects!ExtendEvent, Prospects!Fails, Prospects!End
  <2>2. edit'[c].at # "extendEvent" /\ \A d \in Slot : d # c => edit'[d] = edit[d]
    BY <1>0, <2>1, DefaultSettings
  <2>3. CASE edit[c].at # "extendEvent"
    <3>1. UNCHANGED <<logged, lost>>
      BY <1>7, <2>3 DEF Prospects!ExtendEvent, Prospects!Fails
    <3> QED
      BY <1>3, <2>1, <2>2, <2>3, <3>1
  <2>4. CASE edit[c].at = "extendEvent"
    <3>1. \/ logged' = [logged EXCEPT ![p] = @ + edit[c].days] /\ lost' = lost
          \/ lost' = [lost EXCEPT ![p] = @ + edit[c].days] /\ logged' = logged
      BY <1>7, <2>4 DEF Prospects!ExtendEvent, Prospects!Fails
    <3>2. edit[c].days \in Int
      BY <1>0, WaitingFinite
    <3>3. /\ logged' \in [Prospect -> Int] /\ lost' \in [Prospect -> Int]
          /\ \A q \in Prospect : logged'[q] + lost'[q] = logged[q] + lost[q]
                                                          + (IF p = q THEN edit[c].days ELSE 0)
      BY <3>1, <3>2 DEF PeriodOK
    <3> HIDE DEF p
    <3>4. ASSUME NEW q \in Prospect  PROVE Added(q)'
      <4>1. /\ DaysOf(edit, Waiting(q)) = DaysOf(edit, Waiting(q))' + (IF p = q THEN edit[c].days ELSE 0)
            /\ DaysOf(edit, Waiting(q))' \in Int
        BY <1>0, <2>2, <2>4, OneLess DEF p
      <4>2. extra[q] = logged[q] + lost[q] + DaysOf(edit, Waiting(q))
            /\ logged[q] \in Int /\ lost[q] \in Int /\ logged'[q] \in Int /\ lost'[q] \in Int
        BY <3>3 DEF PeriodOK, Added
      <4>3. extra'[q] = logged'[q] + lost'[q] + DaysOf(edit, Waiting(q))'
        BY <2>1, <3>2, <3>3, <4>1, <4>2
      <4> QED
        BY <4>3 DEF Added
    <3> QED
      BY <1>0, <2>1, <3>3, <3>4 DEF PeriodOK
  <2> QED
    BY <2>3, <2>4
<1> QED
  BY <1>1, <1>2, <1>4, <1>5, <1>6, <1>7 DEF Prospects!Next

\* Each extension counts, and the events of a prospect tell how long its period is, but for those
\* whose request failed between its two statements or is between them now (PATCH /prospects/:id):
\* for any number of prospects, extensions, overlapping requests and failing statements.
THEOREM ExtensionsAreKept ==
  ASSUME PeriodBounds
  PROVE  Prospects!Spec => []ExtensionsAddUp
<1>1. Prospects!Init => PeriodOK
  <2> SUFFICES ASSUME Prospects!Init  PROVE PeriodOK
    OBVIOUS
  <2>1. SettingsOK
    BY DefaultSettings DEF Prospects!Init, SettingsOK, PeriodBounds
  <2>2. \A p : Waiting(p) = {}
    BY DefaultSettings DEF Prospects!Init, Waiting, PeriodBounds
  <2>3. \A p \in Prospect : Added(p)
    BY <2>2, DaysNone DEF Prospects!Init, Added
  <2> QED
    BY <2>1, <2>3 DEF Prospects!Init, PeriodOK
<1>2. PeriodOK /\ [Prospects!Next]_(Prospects!vars) => PeriodOK'
  BY PeriodStep
<1>3. PeriodOK => ExtensionsAddUp
  BY DEF PeriodOK, Added, Waiting, DaysOf, ExtensionsAddUp, Prospects!ExtensionsAddUp
<1> QED
  BY <1>1, <1>2, <1>3, PTL DEF Prospects!Spec

(***************************************************************************)
(* The giveaway.                                                           *)
(***************************************************************************)

Giveaways == 1 .. Last
Entry == [in : BOOLEAN, bonus : Int]
Requests ==
  [at : {"idle", "active", "queue", "entry", "earned", "write"}, kind : Raffle!Kinds,
   who : Person \cup {"nobody"}, delta : Int, g : 0 .. Last, row : Entry, earned : Int, next : Int]
Actions ==
  {a \in [kind : {"start", "open_vote", "draw", "cancel", "add", "refresh"}, g : 0 .. Last,
          who : Person \cup {"nobody"}] :
     (a.kind # "start" => a.g \in Giveaways) /\ (a.kind = "add" => a.who \in Person)}

\* What a request knows at each of its stages: the giveaway it has found, and the person.
RequestOK(q) ==
  /\ q \in Requests
  /\ q.kind \in {"tickets", "add"} => q.who \in Person
  /\ q.at \in {"entry", "earned", "write"} => q.kind = "tickets" /\ q.g \in Giveaways
  /\ q.at = "queue" /\ q.kind # "start" => q.g \in Giveaways

RaffleTypeOK ==
  /\ giveaways \in [Giveaways -> Raffle!Status]
  /\ entries \in [Giveaways -> [Person -> Entry]] /\ earned \in [Giveaways -> [Person -> Int]]
  /\ bonuses \in [Giveaways -> [Person -> Int]]
  /\ queue \in Seq(Actions) /\ doubled \in BOOLEAN
  /\ DOMAIN req = Req /\ req \in [Req -> Requests] /\ \A r \in Req : RequestOK(req[r])

\* Request q has read the row of p in giveaway g, and has not written it yet.
Holding(q, g, p) == q.at \in {"earned", "write"} /\ q.g = g /\ q.who = p

\* Of a row that two adjustments never held at a time, one holds what the row is now, and the
\* row is what was given and taken.
BonusOK(g, p) ==
  /\ entries[g][p].bonus = bonuses[g][p]
  /\ \A r \in Req : Holding(req[r], g, p) => req[r].row.bonus = entries[g][p].bonus
  /\ \A r, o \in Req : Holding(req[r], g, p) /\ Holding(req[o], g, p) => r = o

\* A start on its way: in a request, or in the bot's queue.
Starts(q) == q.kind = "start" /\ q.at = "queue"
Queued(i) == i \in 1 .. Len(queue) /\ queue[i].kind = "start"

\* While none was let through beside another, there is one start at most on its way, none
\* beside an active giveaway, and one active giveaway at most.
StartOK ==
  /\ \A g, h \in Giveaways : Raffle!Active(g) /\ Raffle!Active(h) => g = h
  /\ \A g \in Giveaways : Raffle!Active(g) =>
       (\A r \in Req : ~Starts(req[r])) /\ (\A i \in 1 .. Len(queue) : ~Queued(i))
  /\ \A r, o \in Req : Starts(req[r]) /\ Starts(req[o]) => r = o
  /\ \A i, j \in 1 .. Len(queue) : Queued(i) /\ Queued(j) => i = j
  /\ \A r \in Req, i \in 1 .. Len(queue) : ~(Starts(req[r]) /\ Queued(i))

RaffleOK ==
  /\ RaffleTypeOK
  /\ \A g \in Giveaways, p \in Person : <<g, p>> \notin overlapped => BonusOK(g, p)
  /\ ~doubled => StartOK

\* The bounds are numbers, and tickets are counted.
RaffleBounds == Last \in Nat /\ MaxEarned \in Nat /\ Gives \subseteq Nat /\ Takes \subseteq Nat

LEMMA NoRequest ==
  ASSUME RaffleBounds
  PROVE  RequestOK(Raffle!NoReq) /\ Raffle!NoReq.at = "idle"
<1>1. 0 \in 0 .. Last
  BY DEF RaffleBounds
<1> QED
  BY <1>1 DEF Raffle!NoReq, Raffle!NoRow, RequestOK, Requests, Entry, Raffle!Kinds

\* A request goes on to q; it reads no row, lets no start through, and writes nothing.
LEMMA RequestStep ==
  ASSUME RaffleOK, NEW r \in Req, NEW q, RequestOK(q), req' = [req EXCEPT ![r] = q],
         UNCHANGED <<giveaways, entries, earned, bonuses, queue, overlapped, doubled>>,
         q.at \in {"earned", "write"} =>
           /\ req[r].at \in {"earned", "write"}
           /\ q.g = req[r].g /\ q.who = req[r].who /\ q.row = req[r].row,
         Starts(q) => Starts(req[r])
  PROVE  RaffleOK'
<1>1. /\ req'[r] = q /\ \A o \in Req \ {r} : req'[o] = req[o]
      /\ DOMAIN req' = Req
  BY DEF RaffleOK, RaffleTypeOK
<1>2. RaffleTypeOK'
  BY <1>1 DEF RaffleOK, RaffleTypeOK, RequestOK
<1>3. ASSUME NEW g \in Giveaways, NEW p \in Person, <<g, p>> \notin overlapped  PROVE BonusOK(g, p)'
  <2>1. BonusOK(g, p)
    BY <1>3 DEF RaffleOK
  <2>2. \A o \in Req : Holding(req'[o], g, p) => Holding(req[o], g, p) /\ req'[o].row = req[o].row
    BY <1>1 DEF Holding
  <2> QED
    BY <2>1, <2>2 DEF BonusOK
<1>4. ASSUME ~doubled  PROVE StartOK'
  <2>1. StartOK
    BY <1>4 DEF RaffleOK
  <2>2. \A o \in Req : Starts(req'[o]) => Starts(req[o])
    BY <1>1
  <2> QED
    BY <2>1, <2>2 DEF StartOK, Raffle!Active, Queued
<1> QED
  BY <1>2, <1>3, <1>4 DEF RaffleOK

LEMMA DoneStep ==
  ASSUME RaffleBounds, RaffleOK, NEW r \in Req, Raffle!Done(r),
         UNCHANGED <<giveaways, entries, earned, bonuses, queue, overlapped, doubled>>
  PROVE  RaffleOK'
<1>1. req' = [req EXCEPT ![r] = Raffle!NoReq]
  BY DEF Raffle!Done
<1> QED
  BY <1>1, NoRequest, RequestStep DEF Starts

LEMMA AskStep ==
  ASSUME RaffleBounds, RaffleOK, NEW r \in Req, NEW kind \in Raffle!Kinds,
         NEW who \in Person \cup {"nobody"}, NEW delta \in Int,
         kind \in {"tickets", "add"} => who \in Person, Raffle!Ask(r, kind, who, delta)
  PROVE  RaffleOK'
<1> DEFINE q == [Raffle!NoReq EXCEPT !.at = "active", !.kind = kind, !.who = who, !.delta = delta]
<1>1. Raffle!NoReq \in Requests
  BY NoRequest DEF RequestOK
<1>2. q \in Requests /\ q.at = "active" /\ q.kind = kind /\ q.who = who
  BY <1>1 DEF Requests
<1>3. /\ req' = [req EXCEPT ![r] = q]
      /\ UNCHANGED <<giveaways, entries, earned, bonuses, queue, overlapped, doubled>>
  BY DEF Raffle!Ask, Raffle!tables, Raffle!history
<1> HIDE DEF q
<1>4. RequestOK(q) /\ ~Starts(q)
  BY <1>2 DEF RequestOK, Starts
<1> QED
  BY <1>2, <1>3, <1>4, RequestStep

\* The check of a start: one that is let through finds no active giveaway, and no other start
\* on its way, or is counted as doubled.
LEMMA StartChecksStep ==
  ASSUME RaffleBounds, RaffleOK, NEW r \in Req, Raffle!StartChecks(r)
  PROVE  RaffleOK'
<1>1. /\ req[r].at = "active" /\ req[r].kind = "start"
      /\ UNCHANGED <<giveaways, entries, earned, bonuses, queue, overlapped>>
  BY DEF Raffle!StartChecks, Raffle!tables
<1>2. CASE Raffle!Done(r) /\ UNCHANGED doubled
  BY <1>1, <1>2, DoneStep
<1>3. CASE /\ ~\E g \in Giveaways : Raffle!Active(g)
           /\ Raffle!Goto(r, "queue") /\ doubled' = (doubled \/ Raffle!Starting)
  <2> DEFINE q == [req[r] EXCEPT !.at = "queue"]
  <2>1. req[r] \in Requests /\ RequestOK(req[r])
    BY DEF RaffleOK, RaffleTypeOK
  <2>2. q \in Requests /\ q.at = "queue" /\ q.kind = "start" /\ q.who = req[r].who
    BY <1>1, <2>1 DEF Requests
  <2>3. req' = [req EXCEPT ![r] = q]
    BY <1>3 DEF Raffle!Goto
  <2> HIDE DEF q
  <2>4. req'[r] = q /\ (\A o \in Req \ {r} : req'[o] = req[o]) /\ DOMAIN req' = Req
    BY <2>3 DEF RaffleOK, RaffleTypeOK
  <2>5. RequestOK(q)
    BY <2>2 DEF RequestOK
  <2>6. doubled' \in BOOLEAN
    BY <1>3
  <2>7. RaffleTypeOK'
    BY <1>1, <2>3, <2>4, <2>5, <2>6 DEF RaffleOK, RaffleTypeOK, RequestOK
  <2>8. ASSUME NEW g \in Giveaways, NEW p \in Person, <<g, p>> \notin overlapped  PROVE BonusOK(g, p)'
    <3>1. BonusOK(g, p)
      BY <2>8 DEF RaffleOK
    <3>2. \A o \in Req : Holding(req'[o], g, p) => Holding(req[o], g, p) /\ req'[o] = req[o]
      BY <2>2, <2>4 DEF Holding
    <3> QED
      BY <1>1, <3>1, <3>2 DEF BonusOK
  <2>9. ASSUME ~doubled'  PROVE StartOK'
    <3>1. StartOK /\ ~Raffle!Starting
      BY <1>3, <2>9 DEF RaffleOK
    <3>2. (\A o \in Req : ~Starts(req[o])) /\ (\A i \in 1 .. Len(queue) : ~Queued(i))
      BY <3>1 DEF Raffle!Starting, Starts, Queued
    <3>3. \A g \in Giveaways : ~Raffle!Active(g)'
      BY <1>1, <1>3 DEF Raffle!Active
    <3>4. \A o \in Req : Starts(req'[o]) => o = r
      BY <2>4, <3>2
    <3>5. \A i \in 1 .. Len(queue') : ~Queued(i)'
      BY <1>1, <3>2 DEF Queued
    <3> QED
      BY <3>3, <3>4, <3>5 DEF StartOK
  <2> QED
    BY <1>1, <2>7, <2>8, <2>9 DEF RaffleOK
<1> QED
  BY <1>2, <1>3 DEF Raffle!StartChecks, Raffle!Giveaways, Giveaways

LEMMA FindsActiveStep ==
  ASSUME RaffleBounds, RaffleOK, NEW r \in Req, Raffle!FindsActive(r)
  PROVE  RaffleOK'
<1>1. /\ req[r].at = "active" /\ req[r].kind # "start"
      /\ UNCHANGED <<giveaways, entries, earned, bonuses, queue, overlapped, doubled>>
  BY DEF Raffle!FindsActive, Raffle!tables, Raffle!history
<1>2. ASSUME NEW g \in Giveaways,
             req' = [req EXCEPT ![r].g = g,
                      ![r].at = IF req[r].kind = "tickets" THEN "entry" ELSE "queue"]
      PROVE  RaffleOK'
  <2> DEFINE q == [req[r] EXCEPT !.g = g, !.at = IF req[r].kind = "tickets" THEN "entry" ELSE "queue"]
  <2>1. RequestOK(req[r]) /\ req[r] \in Requests /\ g \in 0 .. Last
    BY DEF RaffleOK, RaffleTypeOK, Giveaways
  <2>2. /\ q \in Requests /\ q.at \in {"entry", "queue"} /\ (q.at = "entry" => q.kind = "tickets")
        /\ q.kind = req[r].kind /\ q.who = req[r].who /\ q.g = g
    BY <2>1 DEF Requests
  <2>3. req' = [req EXCEPT ![r] = q]
    BY <1>2
  <2> HIDE DEF q
  <2>4. RequestOK(q) /\ ~Starts(q)
    BY <1>1, <2>1, <2>2 DEF RequestOK, Starts
  <2> QED
    BY <1>1, <2>2, <2>3, <2>4, RequestStep
<1> QED
  BY <1>1, <1>2, DoneStep DEF Raffle!FindsActive, Raffle!Giveaways, Giveaways

\* The row is read: whoever holds it too makes the two overlap.
LEMMA ReadEntryStep ==
  ASSUME RaffleBounds, RaffleOK, NEW r \in Req, Raffle!ReadEntry(r)
  PROVE  RaffleOK'
<1> DEFINE q == req[r]
           row == entries[q.g][q.who]
           v == [q EXCEPT !.at = "earned", !.row = row]
<1>1. /\ q.at = "entry" /\ RequestOK(q) /\ q \in Requests /\ q.kind = "tickets" /\ q.g \in Giveaways
      /\ q.who \in Person /\ row \in Entry
      /\ UNCHANGED <<giveaways, entries, earned, bonuses, queue, doubled>>
  BY DEF Raffle!ReadEntry, Raffle!tables, RaffleOK, RaffleTypeOK, RequestOK
<1>2. CASE Raffle!Done(r) /\ UNCHANGED overlapped
  BY <1>1, <1>2, DoneStep
<1>3. CASE /\ req' = [req EXCEPT ![r].at = "earned", ![r].row = row]
           /\ overlapped' = IF \E o \in Req \ {r} : req[o].at \in {"earned", "write"}
                                                     /\ req[o].g = q.g /\ req[o].who = q.who
                              THEN overlapped \cup {<<q.g, q.who>>} ELSE overlapped
  <2>1. req' = [req EXCEPT ![r] = v]
    BY <1>3
  <2>2. /\ v \in Requests /\ v.at = "earned" /\ v.row = row /\ v.g = q.g /\ v.who = q.who
        /\ v.kind = q.kind
    BY <1>1 DEF Requests
  <2> HIDE DEF v
  <2>3. req'[r] = v /\ (\A o \in Req \ {r} : req'[o] = req[o]) /\ DOMAIN req' = Req
    BY <2>1 DEF RaffleOK, RaffleTypeOK
  <2>4. RequestOK(v)
    BY <1>1, <2>2 DEF RequestOK
  <2>5. RaffleTypeOK'
    BY <1>1, <2>1, <2>2, <2>3, <2>4 DEF RaffleOK, RaffleTypeOK, RequestOK
  <2>6. ASSUME NEW g \in Giveaways, NEW p \in Person, <<g, p>> \notin overlapped'
        PROVE  BonusOK(g, p)'
    <3>1. BonusOK(g, p)
      BY <1>3, <2>6 DEF RaffleOK
    <3>2. CASE g = q.g /\ p = q.who
      <4>1. \A o \in Req \ {r} : ~Holding(req[o], g, p)
        BY <1>3, <2>6, <3>2 DEF Holding
      <4>2. \A o \in Req \ {r} : ~Holding(req'[o], g, p)
        BY <2>3, <4>1
      <4> QED
        BY <1>1, <2>2, <2>3, <3>1, <3>2, <4>2 DEF BonusOK
    <3>3. CASE ~(g = q.g /\ p = q.who)
      <4>1. ~Holding(req'[r], g, p)
        BY <2>2, <2>3, <3>3 DEF Holding
      <4> QED
        BY <1>1, <2>3, <3>1, <4>1 DEF BonusOK
    <3> QED
      BY <3>2, <3>3
  <2>7. ASSUME ~doubled  PROVE StartOK'
    <3>1. StartOK
      BY <2>7 DEF RaffleOK
    <3>2. \A o \in Req : Starts(req'[o]) => Starts(req[o])
      BY <2>2, <2>3 DEF Starts
    <3> QED
      BY <1>1, <3>1, <3>2 DEF StartOK, Raffle!Active, Queued
  <2> QED
    BY <1>1, <2>5, <2>6, <2>7 DEF RaffleOK
<1> QED
  BY <1>2, <1>3 DEF Raffle!ReadEntry

LEMMA ReadEarnedStep ==
  ASSUME RaffleBounds, RaffleOK, NEW r \in Req, Raffle!ReadEarned(r)
  PROVE  RaffleOK'
<1> DEFINE q == req[r]
           earns == IF q.row.in THEN earned[q.g][q.who] ELSE 0
           next == Raffle!NextTicketBonus(earns, q.row.bonus, q.delta)
           v == [q EXCEPT !.at = "write", !.earned = earns, !.next = next]
<1>1. /\ q.at = "earned" /\ RequestOK(q) /\ q \in Requests /\ q.g \in Giveaways /\ q.who \in Person
      /\ UNCHANGED <<giveaways, entries, earned, bonuses, queue, overlapped, doubled>>
  BY DEF Raffle!ReadEarned, Raffle!tables, Raffle!history, RaffleOK, RaffleTypeOK, RequestOK
<1>2. CASE Raffle!Done(r)
  BY <1>1, <1>2, DoneStep
<1>3. CASE req' = [req EXCEPT ![r].at = "write", ![r].earned = earns, ![r].next = next]
  <2>1. earns \in Int /\ q.row.bonus \in Int /\ q.delta \in Int
    BY <1>1 DEF RaffleOK, RaffleTypeOK, Requests, Entry
  <2> HIDE DEF earns
  <2>2. next \in Int
    BY <2>1 DEF Raffle!NextTicketBonus, Raffle!Tickets, Raffle!Most
  <2> HIDE DEF next
  <2>3. req' = [req EXCEPT ![r] = v]
    BY <1>3
  <2>4. /\ v \in Requests /\ v.at = "write" /\ v.row = q.row /\ v.g = q.g /\ v.who = q.who
        /\ v.kind = q.kind
    BY <1>1, <2>1, <2>2 DEF Requests
  <2> HIDE DEF v
  <2>5. RequestOK(v) /\ ~Starts(v)
    BY <1>1, <2>4 DEF RequestOK, Starts
  <2> QED
    BY <1>1, <2>3, <2>4, <2>5, RequestStep
<1> QED
  BY <1>2, <1>3 DEF Raffle!ReadEarned

\* The bonus is written: of a row that nobody else held, it is what was there and what was given.
LEMMA WriteBonusStep ==
  ASSUME RaffleBounds, RaffleOK, NEW r \in Req, Raffle!WriteBonus(r)
  PROVE  RaffleOK'
<1> DEFINE q == req[r]
           v == [q EXCEPT !.at = "queue"]
           entry == [in |-> TRUE, bonus |-> q.next]
           sum == bonuses[q.g][q.who] + (q.next - q.row.bonus)
<1>1. /\ q.at = "write" /\ RequestOK(q) /\ q \in Requests /\ q.g \in Giveaways /\ q.who \in Person
      /\ q.kind = "tickets" /\ q.next \in Int /\ q.row.bonus \in Int
      /\ UNCHANGED <<giveaways, earned, queue, overlapped, doubled>>
  BY DEF Raffle!WriteBonus, RaffleOK, RaffleTypeOK, RequestOK, Requests, Entry
<1>2. CASE Raffle!Done(r) /\ UNCHANGED <<entries, bonuses>>
  BY <1>1, <1>2, DoneStep
<1>3. CASE /\ entries' = [entries EXCEPT ![q.g][q.who] = entry]
           /\ Raffle!Written(r)
  <2>1. /\ req' = [req EXCEPT ![r] = v]
        /\ bonuses' = [bonuses EXCEPT ![q.g][q.who] = sum]
    BY <1>3 DEF Raffle!Written, Raffle!Goto
  <2>2. v \in Requests /\ v.at = "queue" /\ v.g = q.g /\ v.who = q.who /\ v.kind = q.kind
    BY <1>1 DEF Requests
  <2>3. sum \in Int /\ entry \in Entry /\ entry.bonus = q.next
    BY <1>1 DEF RaffleOK, RaffleTypeOK, Entry
  <2>4. sum = q.next \/ bonuses[q.g][q.who] # q.row.bonus
    BY <1>1
  <2> HIDE DEF v, sum, entry
  <2>5. req'[r] = v /\ (\A o \in Req \ {r} : req'[o] = req[o]) /\ DOMAIN req' = Req
    BY <2>1 DEF RaffleOK, RaffleTypeOK
  <2>6. /\ entries'[q.g][q.who] = entry /\ bonuses'[q.g][q.who] = sum
        /\ \A g \in Giveaways, p \in Person : ~(g = q.g /\ p = q.who) =>
             entries'[g][p] = entries[g][p] /\ bonuses'[g][p] = bonuses[g][p]
        /\ entries' \in [Giveaways -> [Person -> Entry]] /\ bonuses' \in [Giveaways -> [Person -> Int]]
    BY <1>1, <1>3, <2>1, <2>3 DEF RaffleOK, RaffleTypeOK
  <2>7. RequestOK(v)
    BY <1>1, <2>2 DEF RequestOK
  <2>8. RaffleTypeOK'
    BY <1>1, <2>1, <2>2, <2>5, <2>6, <2>7 DEF RaffleOK, RaffleTypeOK, RequestOK
  <2>9. ASSUME NEW g \in Giveaways, NEW p \in Person, <<g, p>> \notin overlapped
        PROVE  BonusOK(g, p)'
    <3>1. BonusOK(g, p)
      BY <2>9 DEF RaffleOK
    <3>2. ~Holding(req'[r], g, p)
      BY <2>2, <2>5 DEF Holding
    <3>3. CASE g = q.g /\ p = q.who
      <4>1. Holding(q, g, p)
        BY <1>1, <3>3 DEF Holding
      <4>2. entries[g][p].bonus = q.row.bonus /\ \A o \in Req \ {r} : ~Holding(req'[o], g, p)
        BY <2>5, <3>1, <4>1 DEF BonusOK
      <4>3. entries'[g][p].bonus = bonuses'[g][p]
        BY <2>3, <2>4, <2>6, <3>1, <3>3, <4>2 DEF BonusOK
      <4> QED
        BY <3>2, <4>2, <4>3 DEF BonusOK
    <3>4. CASE ~(g = q.g /\ p = q.who)
      BY <2>5, <2>6, <3>1, <3>2, <3>4 DEF BonusOK
    <3> QED
      BY <3>3, <3>4
  <2>10. ASSUME ~doubled  PROVE StartOK'
    <3>1. StartOK
      BY <2>10 DEF RaffleOK
    <3>2. \A o \in Req : Starts(req'[o]) => Starts(req[o])
      BY <1>1, <2>2, <2>5 DEF Starts
    <3> QED
      BY <1>1, <3>1, <3>2 DEF StartOK, Raffle!Active, Queued
  <2> QED
    BY <1>1, <2>8, <2>9, <2>10 DEF RaffleOK
<1> QED
  BY <1>2, <1>3 DEF Raffle!WriteBonus

\* The action is queued: a start that was on its way in the request is so in the queue.
LEMMA QueueStep ==
  ASSUME RaffleBounds, RaffleOK, NEW r \in Req, Raffle!Queue(r)
  PROVE  RaffleOK'
<1> DEFINE q == req[r]
           kind == IF q.kind \in {"tickets", "patch"} THEN "refresh" ELSE q.kind
           a == [kind |-> kind, g |-> q.g, who |-> q.who]
<1>1. /\ q.at = "queue" /\ RequestOK(q) /\ q \in Requests /\ queue \in Seq(Actions)
      /\ queue' = Append(queue, a) /\ req' = [req EXCEPT ![r] = Raffle!NoReq]
      /\ UNCHANGED <<giveaways, entries, earned, bonuses, overlapped, doubled>>
  BY DEF Raffle!Queue, Raffle!Done, Raffle!tables, Raffle!history, RaffleOK, RaffleTypeOK
<1>2. a \in Actions /\ (a.kind = "start" <=> q.kind = "start")
  BY <1>1 DEF RequestOK, Requests, Actions, Raffle!Kinds
<1> HIDE DEF a
<1>3. /\ queue' \in Seq(Actions) /\ Len(queue) \in Nat /\ Len(queue') = Len(queue) + 1
      /\ queue'[Len(queue) + 1] = a /\ \A i \in 1 .. Len(queue) : queue'[i] = queue[i]
  BY <1>1, <1>2
<1>4. \A i \in 1 .. Len(queue') : i \in 1 .. Len(queue) \/ i = Len(queue) + 1
  BY <1>3
<1>5. /\ req'[r] = Raffle!NoReq /\ (\A o \in Req \ {r} : req'[o] = req[o]) /\ DOMAIN req' = Req
      /\ RequestOK(Raffle!NoReq) /\ Raffle!NoReq.at = "idle" /\ Raffle!NoReq \in Requests
  BY <1>1, NoRequest DEF RaffleOK, RaffleTypeOK, RequestOK
<1>6. RaffleTypeOK'
  BY <1>1, <1>3, <1>5 DEF RaffleOK, RaffleTypeOK, RequestOK
<1>7. ASSUME NEW g \in Giveaways, NEW p \in Person, <<g, p>> \notin overlapped  PROVE BonusOK(g, p)'
  <2>1. BonusOK(g, p)
    BY <1>7 DEF RaffleOK
  <2>2. \A o \in Req : Holding(req'[o], g, p) => Holding(req[o], g, p) /\ req'[o] = req[o]
    BY <1>5 DEF Holding
  <2> QED
    BY <1>1, <2>1, <2>2 DEF BonusOK
<1>8. ASSUME ~doubled  PROVE StartOK'
  <2>1. StartOK
    BY <1>8 DEF RaffleOK
  <2>2. \A o \in Req : Starts(req'[o]) => Starts(req[o]) /\ o # r
    BY <1>5 DEF Starts
  <2>3. \A i \in 1 .. Len(queue') :
          Queued(i)' => (i \in 1 .. Len(queue) /\ Queued(i)) \/ (i = Len(queue) + 1 /\ Starts(q))
    BY <1>1, <1>2, <1>3, <1>4 DEF Queued, Starts
  <2>4. \A g \in Giveaways : Raffle!Active(g)' <=> Raffle!Active(g)
    BY <1>1 DEF Raffle!Active
  <2> HIDE DEF q
  <2>5. \A g \in Giveaways : Raffle!Active(g)' =>
          (\A o \in Req : ~Starts(req'[o])) /\ (\A i \in 1 .. Len(queue') : ~Queued(i)')
    BY <2>1, <2>2, <2>3, <2>4 DEF StartOK, q
  <2>6. \A i, j \in 1 .. Len(queue') : Queued(i)' /\ Queued(j)' => i = j
    BY <2>1, <2>3 DEF StartOK, q
  <2>7. \A o \in Req, i \in 1 .. Len(queue') : ~(Starts(req'[o]) /\ Queued(i)')
    BY <2>1, <2>2, <2>3 DEF StartOK, q
  <2> QED
    BY <2>1, <2>2, <2>4, <2>5, <2>6, <2>7 DEF StartOK
<1> QED
  BY <1>1, <1>6, <1>7, <1>8 DEF RaffleOK

\* Nothing but requests and staff changes a bonus.
LEMMA SameBonus ==
  ASSUME RaffleOK, UNCHANGED <<req, bonuses, overlapped>>, NEW g \in Giveaways, NEW p \in Person,
         entries'[g][p].bonus = entries[g][p].bonus, <<g, p>> \notin overlapped
  PROVE  BonusOK(g, p)'
<1>1. BonusOK(g, p)
  BY DEF RaffleOK
<1> QED
  BY <1>1 DEF BonusOK

\* What members do, and what a setting does.
LEMMA MemberStep ==
  ASSUME RaffleOK, RaffleTypeOK', UNCHANGED <<giveaways, queue, req, bonuses, overlapped, doubled>>,
         \A g \in Giveaways, p \in Person : entries'[g][p].bonus = entries[g][p].bonus
  PROVE  RaffleOK'
<1>1. \A g \in Giveaways, p \in Person : <<g, p>> \notin overlapped => BonusOK(g, p)'
  BY SameBonus
<1>2. ~doubled => StartOK'
  BY DEF RaffleOK, StartOK, Raffle!Active, Queued
<1> QED
  BY <1>1, <1>2 DEF RaffleOK

LEMMA MemberSteps ==
  ASSUME RaffleBounds, RaffleOK, NEW g \in Giveaways, NEW p \in Person,
         Raffle!Enters(g, p) \/ Raffle!Plays(g, p)
  PROVE  RaffleOK'
<1>0. entries[g][p] \in Entry
  BY DEF RaffleOK, RaffleTypeOK
<1>1. CASE Raffle!Enters(g, p)
  <2> DEFINE e == [entries[g][p] EXCEPT !.in = TRUE]
  <2>1. e \in Entry /\ e.bonus = entries[g][p].bonus
    BY <1>0 DEF Entry
  <2>2. /\ entries' = [entries EXCEPT ![g][p] = e]
        /\ UNCHANGED <<giveaways, earned, queue, req, bonuses, overlapped, doubled>>
    BY <1>1 DEF Raffle!Enters, Raffle!history
  <2> HIDE DEF e
  <2>3. /\ entries' \in [Giveaways -> [Person -> Entry]]
        /\ \A h \in Giveaways, o \in Person : entries'[h][o].bonus = entries[h][o].bonus
    BY <2>1, <2>2 DEF RaffleOK, RaffleTypeOK
  <2>4. RaffleTypeOK'
    BY <2>2, <2>3 DEF RaffleOK, RaffleTypeOK
  <2> QED
    BY <2>2, <2>3, <2>4, MemberStep
<1>2. CASE Raffle!Plays(g, p)
  <2>1. PICK n \in 0 .. MaxEarned : earned' = [earned EXCEPT ![g][p] = n]
    BY <1>2 DEF Raffle!Plays
  <2>2. UNCHANGED <<giveaways, entries, queue, req, bonuses, overlapped, doubled>>
    BY <1>2 DEF Raffle!Plays, Raffle!history
  <2>3. n \in Int
    BY DEF RaffleBounds
  <2>4. earned' \in [Giveaways -> [Person -> Int]]
    BY <2>1, <2>3 DEF RaffleOK, RaffleTypeOK
  <2>5. RaffleTypeOK'
    BY <2>2, <2>4 DEF RaffleOK, RaffleTypeOK
  <2> QED
    BY <2>2, <2>5, MemberStep
<1> QED
  BY <1>1, <1>2

LEMMA ChannelStep ==
  ASSUME RaffleOK, Raffle!SetChannel
  PROVE  RaffleOK'
<1>1. UNCHANGED <<giveaways, entries, earned, queue, req, bonuses, overlapped, doubled>>
  BY DEF Raffle!SetChannel, Raffle!history
<1>2. RaffleTypeOK'
  BY <1>1 DEF RaffleOK, RaffleTypeOK
<1> QED
  BY <1>1, <1>2, MemberStep

LEMMA ServedQueue ==
  ASSUME RaffleTypeOK, queue # <<>>, queue' = Tail(queue)
  PROVE  /\ Head(queue) \in Actions /\ queue' \in Seq(Actions) /\ 1 \in 1 .. Len(queue)
         /\ Head(queue).kind = "start" => Queued(1)
         /\ \A i \in 1 .. Len(queue') : i + 1 \in 1 .. Len(queue) /\ i + 1 # 1
                                        /\ (Queued(i)' => Queued(i + 1))
<1>1. queue \in Seq(Actions)
  BY DEF RaffleTypeOK
<1>2. Len(queue) \in Nat \ {0} /\ Head(queue) = queue[1] /\ 1 \in 1 .. Len(queue)
  BY <1>1
<1>3. /\ Len(queue') = Len(queue) - 1 /\ queue' \in Seq(Actions)
      /\ \A i \in 1 .. Len(queue') : queue'[i] = queue[i + 1]
  BY <1>1
<1>4. \A i \in 1 .. Len(queue') : i + 1 \in 1 .. Len(queue) /\ i + 1 # 1
  BY <1>2, <1>3
<1>5. Head(queue) \in Actions
  BY <1>1
<1> QED
  BY <1>2, <1>3, <1>4, <1>5 DEF Queued

\* The bot serves an action that opens no giveaway.
LEMMA ServeStep ==
  ASSUME RaffleOK, RaffleTypeOK', queue # <<>>, queue' = Tail(queue),
         UNCHANGED <<req, bonuses, overlapped, doubled>>,
         \A g \in Giveaways : Raffle!Active(g)' => Raffle!Active(g),
         \A g \in Giveaways, p \in Person : entries'[g][p].bonus = entries[g][p].bonus
  PROVE  RaffleOK'
<1>1. \A g \in Giveaways, p \in Person : <<g, p>> \notin overlapped => BonusOK(g, p)'
  BY SameBonus
<1>2. ASSUME ~doubled  PROVE StartOK'
  <2>1. StartOK /\ RaffleTypeOK
    BY <1>2 DEF RaffleOK
  <2>2. \A i \in 1 .. Len(queue') : i + 1 \in 1 .. Len(queue) /\ (Queued(i)' => Queued(i + 1))
    BY <2>1, ServedQueue
  <2>3. \A i, j \in 1 .. Len(queue') : Queued(i)' /\ Queued(j)' => i = j
    <3> SUFFICES ASSUME NEW i \in 1 .. Len(queue'), NEW j \in 1 .. Len(queue'), Queued(i)', Queued(j)'
                 PROVE  i = j
      OBVIOUS
    <3>1. i + 1 = j + 1
      BY <2>1, <2>2 DEF StartOK
    <3>2. i \in Int /\ j \in Int
      OBVIOUS
    <3> QED
      BY <3>1, <3>2
  <2> QED
    BY <2>1, <2>2, <2>3 DEF StartOK
<1> QED
  BY <1>1, <1>2 DEF RaffleOK

\* The bot opens a giveaway: no other is active, and no other start is on its way, or a start
\* had been let through beside another.
LEMMA OpenStep ==
  ASSUME RaffleOK, queue # <<>>, queue' = Tail(queue), Head(queue).kind = "start",
         NEW g \in Giveaways, giveaways' = [giveaways EXCEPT ![g] = "open"],
         UNCHANGED <<entries, earned, req, bonuses, overlapped, doubled>>
  PROVE  RaffleOK'
<1>0. RaffleTypeOK
  BY DEF RaffleOK
<1>1. \A h \in Giveaways, p \in Person : <<h, p>> \notin overlapped => BonusOK(h, p)'
  BY SameBonus
<1>2. RaffleTypeOK'
  <2>1. giveaways' \in [Giveaways -> Raffle!Status]
    BY <1>0 DEF RaffleTypeOK, Raffle!Status, Raffle!ActiveStatus
  <2> QED
    BY <1>0, <2>1, ServedQueue DEF RaffleTypeOK
<1>3. ASSUME ~doubled  PROVE StartOK'
  <2>1. StartOK /\ Queued(1) /\ 1 \in 1 .. Len(queue)
    BY <1>0, <1>3, ServedQueue DEF RaffleOK
  <2>2. /\ \A h \in Giveaways : ~Raffle!Active(h)
        /\ \A r \in Req : ~Starts(req[r])
        /\ \A i \in 1 .. Len(queue) : Queued(i) => i = 1
    BY <2>1 DEF StartOK
  <2>3. \A i \in 1 .. Len(queue') : ~Queued(i)'
    BY <1>0, <2>2, ServedQueue
  <2>4. \A h \in Giveaways : Raffle!Active(h)' => h = g
    BY <1>0, <2>2 DEF Raffle!Active, RaffleTypeOK
  <2> QED
    BY <2>2, <2>3, <2>4 DEF StartOK
<1> QED
  BY <1>1, <1>2, <1>3 DEF RaffleOK

LEMMA BotStep ==
  ASSUME RaffleOK, Raffle!Bot
  PROVE  RaffleOK'
<1> DEFINE a == Head(queue)
<1>0. RaffleTypeOK
  BY DEF RaffleOK
<1>1. /\ queue # <<>> /\ queue' = Tail(queue) /\ Raffle!Carries(a)
      /\ UNCHANGED <<req, bonuses, overlapped, doubled>>
  BY DEF Raffle!Bot, Raffle!history
<1>2. a \in Actions /\ queue' \in Seq(Actions)
  BY <1>0, <1>1, ServedQueue
<1> HIDE DEF a
<1>3. a.kind \in {"start", "open_vote", "draw", "cancel", "add", "refresh"}
  BY <1>2 DEF Actions
<1>4. CASE UNCHANGED <<giveaways, entries, earned>>
  <2>1. RaffleTypeOK'
    BY <1>0, <1>1, <1>2, <1>4 DEF RaffleTypeOK
  <2>2. \A g \in Giveaways : Raffle!Active(g)' => Raffle!Active(g)
    BY <1>4 DEF Raffle!Active
  <2> QED
    BY <1>1, <1>4, <2>1, <2>2, ServeStep
<1>5. CASE a.kind = "start"
  <2>1. \/ \E g \in Giveaways : giveaways' = [giveaways EXCEPT ![g] = "open"] /\ UNCHANGED <<entries, earned>>
        \/ UNCHANGED <<giveaways, entries, earned>>
    BY <1>1, <1>5 DEF Raffle!Carries, Raffle!Ended, Raffle!Giveaways, Giveaways
  <2> QED
    BY <1>1, <1>4, <1>5, <2>1, OpenStep DEF a
<1>6. CASE a.kind = "refresh" \/ (a.kind # "start" /\ ~Raffle!Active(a.g))
  <2>1. a.kind # "start"
    BY <1>6
  <2>2. UNCHANGED <<giveaways, entries, earned>>
    BY <1>1, <1>6, <2>1 DEF Raffle!Carries, Raffle!Ended
  <2> QED
    BY <1>4, <2>2
<1>7. CASE a.kind = "add" /\ Raffle!Active(a.g)
  <2> DEFINE e == [entries[a.g][a.who] EXCEPT !.in = TRUE]
  <2>1. /\ entries' = [entries EXCEPT ![a.g][a.who] = e] /\ UNCHANGED <<giveaways, earned>>
        /\ a.g \in Giveaways /\ a.who \in Person
    BY <1>1, <1>2, <1>7 DEF Raffle!Carries, Actions
  <2>2. e \in Entry /\ e.bonus = entries[a.g][a.who].bonus
    <3>1. entries[a.g][a.who] \in Entry
      BY <1>0, <2>1 DEF RaffleTypeOK
    <3> QED
      BY <3>1 DEF Entry
  <2> HIDE DEF e
  <2>3. /\ entries' \in [Giveaways -> [Person -> Entry]]
        /\ \A g \in Giveaways, p \in Person : entries'[g][p].bonus = entries[g][p].bonus
    BY <1>0, <2>1, <2>2 DEF RaffleTypeOK
  <2>4. RaffleTypeOK' /\ \A g \in Giveaways : Raffle!Active(g)' => Raffle!Active(g)
    BY <1>0, <1>1, <1>2, <2>1, <2>3 DEF RaffleTypeOK, Raffle!Active
  <2> QED
    BY <1>1, <2>3, <2>4, ServeStep
<1>8. CASE a.kind \in {"open_vote", "draw", "cancel"} /\ Raffle!Active(a.g)
  <2>1. PICK status \in {"voting", "drawn", "cancelled"} :
          giveaways' = [giveaways EXCEPT ![a.g] = status] /\ UNCHANGED <<entries, earned>>
    BY <1>1, <1>8 DEF Raffle!Carries
  <2>2. a.g \in Giveaways /\ status \in Raffle!Status
    BY <1>2, <1>8 DEF Actions, Raffle!Status, Raffle!ActiveStatus
  <2>3. giveaways' \in [Giveaways -> Raffle!Status]
    BY <1>0, <2>1, <2>2 DEF RaffleTypeOK
  <2>4. RaffleTypeOK'
    BY <1>0, <1>1, <1>2, <2>1, <2>3 DEF RaffleTypeOK
  <2>5. \A g \in Giveaways : Raffle!Active(g)' => Raffle!Active(g)
    BY <1>0, <1>8, <2>1, <2>2 DEF Raffle!Active, RaffleTypeOK
  <2> QED
    BY <1>1, <2>1, <2>4, <2>5, ServeStep
<1> QED
  BY <1>3, <1>5, <1>6, <1>7, <1>8

LEMMA RaffleStep ==
  ASSUME RaffleBounds, RaffleOK, [Raffle!Next]_(Raffle!vars)
  PROVE  RaffleOK'
<1>1. CASE UNCHANGED Raffle!vars
  <2>1. UNCHANGED <<giveaways, entries, earned, queue, req, bonuses, overlapped, doubled>>
    BY <1>1 DEF Raffle!vars, Raffle!tables, Raffle!history
  <2>2. RaffleTypeOK'
    BY <2>1 DEF RaffleOK, RaffleTypeOK
  <2> QED
    BY <2>1, <2>2, MemberStep
<1>2. ASSUME NEW r \in Req, NEW kind \in Raffle!Kinds \ {"tickets", "add"}, Raffle!Ask(r, kind, "nobody", 0)
      PROVE  RaffleOK'
  BY <1>2, AskStep
<1>3. ASSUME NEW r \in Req, NEW p \in Person, Raffle!Ask(r, "add", p, 0)  PROVE RaffleOK'
  BY <1>3, AskStep DEF Raffle!Kinds
<1>4. ASSUME NEW r \in Req, NEW p \in Person, NEW d \in Raffle!Deltas, Raffle!Ask(r, "tickets", p, d)
      PROVE  RaffleOK'
  <2>1. d \in Int
    BY DEF Raffle!Deltas, RaffleBounds
  <2> QED
    BY <1>4, <2>1, AskStep DEF Raffle!Kinds
<1>5. ASSUME NEW r \in Req, Raffle!Fails(r)  PROVE RaffleOK'
  <2>1. /\ Raffle!Done(r)
        /\ UNCHANGED <<giveaways, entries, earned, bonuses, queue, overlapped, doubled>>
    BY <1>5 DEF Raffle!Fails, Raffle!tables, Raffle!history
  <2> QED
    BY <2>1, DoneStep
<1>6. ASSUME NEW g \in Raffle!Giveaways, NEW p \in Person, Raffle!Enters(g, p) \/ Raffle!Plays(g, p)
      PROVE  RaffleOK'
  BY <1>6, MemberSteps DEF Raffle!Giveaways, Giveaways
<1> QED
  BY <1>1, <1>2, <1>3, <1>4, <1>5, <1>6, StartChecksStep, FindsActiveStep, ReadEntryStep,
     ReadEarnedStep, WriteBonusStep, QueueStep, ChannelStep, BotStep DEF Raffle!Next

LEMMA RaffleInit ==
  ASSUME RaffleBounds, Raffle!Init
  PROVE  RaffleOK
<1>1. RequestOK(Raffle!NoReq) /\ Raffle!NoReq.at = "idle" /\ Raffle!NoReq \in Requests
  BY NoRequest DEF RequestOK
<1>2. Raffle!NoRow \in Entry /\ Raffle!NoRow.bonus = 0
  BY DEF Raffle!NoRow, Entry
<1>3. RaffleTypeOK
  <2>1. giveaways \in [Giveaways -> Raffle!Status]
    BY DEF Raffle!Init, Raffle!Giveaways, Giveaways, Raffle!Status
  <2>2. entries \in [Giveaways -> [Person -> Entry]]
    BY <1>2 DEF Raffle!Init, Raffle!Giveaways, Giveaways
  <2>3. earned \in [Giveaways -> [Person -> Int]] /\ bonuses \in [Giveaways -> [Person -> Int]]
    BY DEF Raffle!Init, Raffle!Giveaways, Giveaways
  <2>4. req \in [Req -> Requests] /\ \A r \in Req : RequestOK(req[r])
    BY <1>1 DEF Raffle!Init
  <2>5. queue \in Seq(Actions)
    <3>1. <<>> \in Seq(Actions)
      OBVIOUS
    <3> QED
      BY <3>1 DEF Raffle!Init
  <2>6. doubled \in BOOLEAN
    BY DEF Raffle!Init
  <2> QED
    BY <2>1, <2>2, <2>3, <2>4, <2>5, <2>6 DEF RaffleTypeOK
<1>4. \A g \in Giveaways, p \in Person : BonusOK(g, p)
  BY <1>1, <1>2 DEF Raffle!Init, BonusOK, Holding, Raffle!Giveaways, Giveaways
<1>5. StartOK
  BY <1>1 DEF Raffle!Init, StartOK, Raffle!Active, Raffle!ActiveStatus, Starts, Queued,
              Raffle!Giveaways, Giveaways
<1> QED
  BY <1>3, <1>4, <1>5 DEF RaffleOK

\* The bonus of a person in a giveaway is the sum of what staff gave and took there, unless two
\* adjustments of it overlapped (POST /giveaway/tickets with nextTicketBonus), and no two
\* giveaways are active, unless a start was let through while an earlier one waited for the bot
\* (POST /giveaway/start): for any number of giveaways, people, requests and queued actions.
THEOREM BonusesAddUp ==
  ASSUME RaffleBounds
  PROVE  Raffle!Spec => []BonusAddsUp
<1>1. Raffle!Init => RaffleOK
  BY RaffleInit
<1>2. RaffleOK /\ [Raffle!Next]_(Raffle!vars) => RaffleOK'
  BY RaffleStep
<1>3. RaffleOK => BonusAddsUp
  BY DEF RaffleOK, StartOK, BonusOK, BonusAddsUp, Raffle!OneActive, Raffle!BonusAddsUp,
         Raffle!Giveaways, Giveaways
<1> QED
  BY <1>1, <1>2, <1>3, PTL DEF Raffle!Spec

(***************************************************************************)
(* Temporary voice channels: the saved default (TempVoice).                *)
(***************************************************************************)

\* A request keeps the fields that matter here.
Fields(c) == {"at", "had", "late"} \subseteq DOMAIN c

\* A request about to write has the row in its hands, or has been overtaken and knows it.
Held(c) == c.at = "write" => c.late = TRUE \/ c.had = preset

\* The inductive invariant.
VoiceOK ==
  /\ call = [r \in Request |-> call[r]]
  /\ \A r \in Request : Fields(call[r]) /\ Held(call[r])

\* What SettingsKept says of a step.
KeptStep ==
  preset # None /\ preset' # None =>
    \A s \in Voice!Setting : preset'[s] # preset[s] =>
      \E r \in Request : Voice!Writes(r) /\ ~Voice!Writes(r)' /\ (s \in DOMAIN call[r].body \/ call[r].late)

\* A request that takes a step, and leaves the row alone.
LEMMA VoiceMove ==
  ASSUME VoiceOK, NEW r \in Request, NEW c, Fields(c), Held(c),
         call' = [call EXCEPT ![r] = c], UNCHANGED preset
  PROVE  VoiceOK'
<1>1. /\ call' = [q \in Request |-> call'[q]] /\ call'[r] = c
      /\ \A q \in Request : q # r => call'[q] = call[q]
  BY DEF VoiceOK
<1> QED
  BY <1>1 DEF VoiceOK, Held

LEMMA VoiceIdle == Fields(Voice!Idle) /\ Held(Voice!Idle) /\ Voice!Idle.at = "idle"
  BY DEF Fields, Held, Voice!Idle

\* A write of the row: every other request that had read it is told that it comes late.
LEMMA VoiceWrite ==
  ASSUME VoiceOK, NEW r \in Request, NEW c, Fields(c), c.at # "write",
         call' = [q \in Request |-> IF q # r THEN [call[q] EXCEPT !.late = @ \/ Voice!Writes(q)] ELSE c]
  PROVE  VoiceOK'
<1>1. ASSUME NEW q \in Request  PROVE Fields(call[q])' /\ Held(call[q])'
  <2>1. CASE q = r
    <3>1. call'[q] = c
      BY <2>1
    <3> QED
      BY <3>1 DEF Held
  <2>2. CASE q # r
    <3> DEFINE d == [call[q] EXCEPT !.late = @ \/ Voice!Writes(q)]
    <3>1. call'[q] = d
      BY <2>2
    <3>2. Fields(call[q]) /\ Held(call[q])
      BY DEF VoiceOK
    <3>3. /\ Fields(d) /\ d.at = call[q].at /\ d.had = call[q].had
          /\ d.late = (call[q].late \/ Voice!Writes(q))
      BY <3>2 DEF Fields
    <3> HIDE DEF d
    <3>4. d.at = "write" => d.late = TRUE
      BY <3>2, <3>3 DEF Held, Voice!Writes
    <3> QED
      BY <3>1, <3>3, <3>4 DEF Held
  <2> QED
    BY <2>1, <2>2
<1>2. call' = [q \in Request |-> call'[q]]
  OBVIOUS
<1> QED
  BY <1>1, <1>2 DEF VoiceOK

LEMMA VoiceStep ==
  ASSUME VoiceOK, [Voice!Next]_(Voice!vars)
  PROVE  VoiceOK' /\ (UNCHANGED Voice!vars \/ KeptStep)
<1>0. ASSUME NEW r \in Request, UNCHANGED preset, NEW c, Fields(c), Held(c), call' = [call EXCEPT ![r] = c]
      PROVE  VoiceOK' /\ KeptStep
  BY <1>0, VoiceMove DEF KeptStep
<1>1. ASSUME UNCHANGED <<preset, call>>  PROVE VoiceOK' /\ KeptStep
  BY <1>1 DEF VoiceOK, Held, KeptStep
<1>2. CASE UNCHANGED Voice!vars
  BY <1>1, <1>2 DEF Voice!vars, Voice!tables
<1>3. ASSUME NEW r \in Request,
             \/ \E body \in Voice!Bodies, creating \in BOOLEAN, apply \in BOOLEAN :
                  Voice!Save(r, body, creating, apply)
             \/ Voice!Clear(r)
             \/ \E c \in Channel, s \in Voice!Setting, v \in Voice!Value : Voice!Manage(r, c, s, v)
      PROVE  VoiceOK' /\ KeptStep
  <2>1. UNCHANGED preset
    BY <1>3 DEF Voice!Save, Voice!Clear, Voice!Manage, Voice!Begin, Voice!tables
  <2>2. ASSUME NEW body, NEW creating, NEW apply, Voice!Save(r, body, creating, apply)
        PROVE  VoiceOK' /\ KeptStep
    <3> DEFINE c == [Voice!Idle EXCEPT !.at = "read", !.body = body, !.creating = creating, !.apply = apply]
    <3>1. Fields(c) /\ Held(c)
      BY DEF Fields, Held, Voice!Idle
    <3>2. call' = [call EXCEPT ![r] = c]
      BY <2>2 DEF Voice!Save
    <3> QED
      BY <1>0, <2>1, <3>1, <3>2
  <2>3. ASSUME Voice!Clear(r)
        PROVE  VoiceOK' /\ KeptStep
    <3> DEFINE c == [Voice!Idle EXCEPT !.at = "clear"]
    <3>1. Fields(c) /\ Held(c)
      BY DEF Fields, Held, Voice!Idle
    <3>2. call' = [call EXCEPT ![r] = c]
      BY <2>3 DEF Voice!Clear
    <3> QED
      BY <1>0, <2>1, <3>1, <3>2
  <2>4. ASSUME NEW ch \in Channel, NEW s \in Voice!Setting, NEW v \in Voice!Value, Voice!Manage(r, ch, s, v)
        PROVE  VoiceOK' /\ KeptStep
    <3> DEFINE c == [Voice!Idle EXCEPT !.at = "queue", !.todo = <<[c |-> ch, s |-> s, v |-> v]>>]
    <3>1. Fields(c) /\ Held(c)
      BY DEF Fields, Held, Voice!Idle
    <3>2. call' = [call EXCEPT ![r] = c]
      BY <2>4 DEF Voice!Manage
    <3> QED
      BY <1>0, <2>1, <3>1, <3>2
  <2> QED
    BY <1>3, <2>2, <2>3, <2>4
<1>4. ASSUME NEW r \in Request, Voice!ReadPreset(r)  PROVE VoiceOK' /\ KeptStep
  <2> DEFINE c == [call[r] EXCEPT !.at = "write", !.had = preset]
  <2>1. UNCHANGED preset
    BY <1>4 DEF Voice!ReadPreset, Voice!tables
  <2>2. call' = [call EXCEPT ![r] = Voice!Idle] \/ call' = [call EXCEPT ![r] = c]
    BY <1>4 DEF Voice!ReadPreset
  <2>3. Fields(call[r])
    BY DEF VoiceOK
  <2>4. Fields(c) /\ c.had = preset
    BY <2>3 DEF Fields
  <2>5. Held(c)
    BY <2>3, <2>4 DEF Held
  <2> QED
    BY <1>0, <2>1, <2>2, <2>4, <2>5, VoiceIdle
<1>5. ASSUME NEW r \in Request, Voice!ReadLive(r) \/ Voice!Enqueue(r) \/ Voice!Fail(r) \/ Voice!ReadCleared(r)
      PROVE  VoiceOK' /\ KeptStep
  <2>1. UNCHANGED preset
    BY <1>5 DEF Voice!ReadLive, Voice!Enqueue, Voice!Fail, Voice!ReadCleared, Voice!tables
  <2>2. \/ call' = [call EXCEPT ![r] = Voice!Idle]
        \/ \E todo : call' = [call EXCEPT ![r] = [call[r] EXCEPT !.at = "queue", !.todo = todo]]
        \/ call[r].at = "queue" /\ \E todo : call' = [call EXCEPT ![r] = [call[r] EXCEPT !.todo = todo]]
        \/ call' = [call EXCEPT ![r] = [call[r] EXCEPT !.at = "remove"]]
    <3>1. ASSUME Voice!ReadLive(r)
          PROVE  \/ call' = [call EXCEPT ![r] = Voice!Idle]
                 \/ \E todo : call' = [call EXCEPT ![r] = [call[r] EXCEPT !.at = "queue", !.todo = todo]]
      <4> DEFINE todo == Voice!SetToSeq(Voice!Actions(call[r].body))
      <4>1. call' = [call EXCEPT ![r] = IF todo = <<>> THEN Voice!Idle
                                        ELSE [call[r] EXCEPT !.at = "queue", !.todo = todo]]
        BY <3>1 DEF Voice!ReadLive
      <4> HIDE DEF todo
      <4> QED
        BY <4>1
    <3>2. ASSUME Voice!Enqueue(r)
          PROVE  \/ call' = [call EXCEPT ![r] = Voice!Idle]
                 \/ call[r].at = "queue" /\ \E todo : call' = [call EXCEPT ![r] = [call[r] EXCEPT !.todo = todo]]
      BY <3>2 DEF Voice!Enqueue
    <3>3. ASSUME Voice!Fail(r) \/ Voice!ReadCleared(r)
          PROVE  \/ call' = [call EXCEPT ![r] = Voice!Idle]
                 \/ call' = [call EXCEPT ![r] = [call[r] EXCEPT !.at = "remove"]]
      BY <3>3 DEF Voice!Fail, Voice!ReadCleared
    <3> QED
      BY <1>5, <3>1, <3>2, <3>3
  <2>3. Fields(call[r])
    BY DEF VoiceOK
  <2>4. ASSUME NEW todo  PROVE LET c == [call[r] EXCEPT !.at = "queue", !.todo = todo] IN Fields(c) /\ Held(c)
    BY <2>3 DEF Fields, Held
  <2>5. ASSUME NEW todo, call[r].at = "queue"
        PROVE  LET c == [call[r] EXCEPT !.todo = todo] IN Fields(c) /\ Held(c)
    BY <2>3, <2>5 DEF Fields, Held
  <2>6. LET c == [call[r] EXCEPT !.at = "remove"] IN Fields(c) /\ Held(c)
    BY <2>3 DEF Fields, Held
  <2> QED
    BY <1>0, <2>1, <2>2, <2>4, <2>5, <2>6, VoiceIdle
<1>6. ASSUME NEW r \in Request, Voice!WritePreset(r)  PROVE VoiceOK' /\ KeptStep
  <2> DEFINE row == Voice!Merged(call[r].body, call[r].had)
             c == IF call[r].apply THEN [call[r] EXCEPT !.at = "owned"] ELSE Voice!Idle
  <2>1. /\ Voice!Writes(r) /\ preset' = row
        /\ call' = [q \in Request |-> IF q # r THEN [call[q] EXCEPT !.late = @ \/ Voice!Writes(q)] ELSE c]
    BY <1>6 DEF Voice!WritePreset
  <2>2. Fields(call[r]) /\ Held(call[r])
    BY DEF VoiceOK
  <2>3. Fields(c) /\ c.at # "write"
    BY <2>2, VoiceIdle DEF Fields
  <2>4. call'[r] = c
    BY <2>1
  <2>5. VoiceOK'
    BY <2>1, <2>3, VoiceWrite
  <2>6. ~Voice!Writes(r)'
    BY <2>3, <2>4 DEF Voice!Writes
  <2>7. ASSUME NEW s \in Voice!Setting, preset # None, preset'[s] # preset[s],
               s \notin DOMAIN call[r].body, call[r].late # TRUE
        PROVE  FALSE
    <3>1. call[r].had = preset
      BY <2>1, <2>2, <2>7 DEF Held, Voice!Writes
    <3> QED
      BY <2>1, <2>7, <3>1 DEF Voice!Merged
  <2>8. KeptStep
    BY <2>1, <2>6, <2>7 DEF KeptStep
  <2> QED
    BY <2>5, <2>8
<1>7. ASSUME NEW r \in Request, Voice!RemovePreset(r)  PROVE VoiceOK' /\ KeptStep
  <2>1. /\ preset' = None
        /\ call' = [q \in Request |-> IF q # r THEN [call[q] EXCEPT !.late = @ \/ Voice!Writes(q)]
                                     ELSE Voice!Idle]
    BY <1>7 DEF Voice!RemovePreset
  <2> QED
    BY <2>1, VoiceWrite, VoiceIdle DEF KeptStep
<1>8. ASSUME \/ Voice!CarryOut
             \/ \E c \in Channel : \/ Voice!OpenChannel(c) \/ Voice!CloseChannel(c)
                                   \/ \E s \in Voice!Setting, v \in Voice!Value : Voice!OwnerSets(c, s, v)
      PROVE  VoiceOK' /\ KeptStep
  BY <1>1, <1>8 DEF Voice!CarryOut, Voice!OpenChannel, Voice!CloseChannel, Voice!OwnerSets, Voice!Unasked
<1> QED
  BY <1>2, <1>3, <1>4, <1>5, <1>6, <1>7, <1>8 DEF Voice!Next

LEMMA VoiceInit == Voice!Init => VoiceOK
  BY VoiceIdle DEF Voice!Init, VoiceOK, Held

\* A saved default loses or changes a setting only by a request that names it, or by one whose
\* reading of the row another request's write has overtaken (upsertPreset reads, merges and writes
\* in separate statements): for any number of settings, channels and requests.
THEOREM SettingsAreKept == Voice!Spec => SettingsKept
<1>1. VoiceOK /\ [Voice!Next]_(Voice!vars) => VoiceOK' /\ [KeptStep]_(Voice!vars)
  BY VoiceStep
<1> QED
  BY <1>1, VoiceInit, PTL DEF Voice!Spec, SettingsKept, Voice!SettingsKept, KeptStep

(***************************************************************************)
(* Temporary voice channels: what a live channel is (TempVoice).           *)
(***************************************************************************)

\* What a channel may be set to, and an action on its way to the bot.
Settings == [Voice!Setting -> Voice!Value]
Act == [c : Channel, s : Voice!Setting, v : Voice!Value]

Within(a, q) == \E i \in 1..Len(q) : q[i] = a

\* An action that the bot is still to carry out.
Coming(a) == Within(a, pending) \/ \E r \in Request : Within(a, call[r].todo)

\* A request: what it asks for, what it has read, and actions exactly while it queues them.
AskedOK(c) ==
  /\ DOMAIN c = {"at", "body", "creating", "apply", "had", "todo", "late"}
  /\ DOMAIN c.body \subseteq Voice!Setting /\ \A s \in DOMAIN c.body : c.body[s] \in Voice!Value
  /\ c.had \in {None} \cup Settings
  /\ c.todo \in Seq(Act) /\ (c.at = "queue" <=> c.todo # <<>>)

FollowTypeOK ==
  /\ preset \in {None} \cup Settings
  /\ live \in [Channel -> {None, Gone} \cup Settings]
  /\ wanted \in [Channel -> {None} \cup Settings]
  /\ \A c \in Voice!Live : wanted[c] \in Settings
  /\ pending \in Seq(Act)
  /\ call = [r \in Request |-> call[r]] /\ \A r \in Request : AskedOK(call[r])
  /\ mixed \in BOOLEAN

\* One request at a time, and none has anything queued before it queues its own actions.
AloneOK ==
  /\ \A q, r \in Request : call[q].at # "idle" /\ call[r].at # "idle" => q = r
  /\ \A r \in Request : call[r].at \notin {"idle", "queue"} => pending = <<>>

\* An action is about a channel that was once open, and says what was asked of it last.
QueuedOK ==
  \A a \in Act : Coming(a) => live[a.c] # None /\ (a.c \in Voice!Live => a.v = wanted[a.c][a.s])

\* A request that is to read the live channels has saved what it was asked for.
Owned(r) == call[r].at = "owned"
Sends(r, s) == Owned(r) /\ s \in DOMAIN call[r].body /\ Voice!Sent(call[r].body, s)
OwnedOK(r) ==
  Owned(r) =>
    /\ preset # None
    /\ \A s \in DOMAIN call[r].body :
         /\ preset[s] = call[r].body[s]
         /\ Voice!Sent(call[r].body, s) => \A c \in Voice!Live : wanted[c][s] = call[r].body[s]

\* A setting is as it was asked for, or the action about it is on its way, or will be.
SettingOK(c, s) ==
  \/ live[c][s] = wanted[c][s]
  \/ \E a \in Act : Coming(a) /\ a.c = c /\ a.s = s
  \/ \E r \in Request : Sends(r, s)

Following ==
  /\ AloneOK /\ QueuedOK
  /\ \A r \in Request : OwnedOK(r)
  /\ \A c \in Voice!Live, s \in Voice!Setting : SettingOK(c, s)

\* The inductive invariant.
FollowOK == FollowTypeOK /\ (~mixed => Following)

LEMMA WithinSteps ==
  /\ \A a : ~Within(a, <<>>)
  /\ \A b \in Act : <<b>> \in Seq(Act) /\ <<b>> # <<>> /\ \A a : Within(a, <<b>>) <=> a = b
<1>1. \A a : ~Within(a, <<>>)
  BY DEF Within
<1>2. ASSUME NEW b \in Act  PROVE <<b>> \in Seq(Act) /\ <<b>> # <<>> /\ \A a : Within(a, <<b>>) <=> a = b
  BY DEF Within
<1> QED
  BY <1>1, <1>2

LEMMA WithinAppend ==
  ASSUME NEW q \in Seq(Act), NEW b \in Act
  PROVE  Append(q, b) \in Seq(Act) /\ \A a : Within(a, Append(q, b)) <=> Within(a, q) \/ a = b
<1>1. Len(Append(q, b)) = Len(q) + 1 /\ Append(q, b)[Len(q) + 1] = b
      /\ Append(q, b) \in Seq(Act) /\ \A i \in 1..Len(q) : Append(q, b)[i] = q[i]
  OBVIOUS
<1>2. Len(q) \in Nat
  OBVIOUS
<1> HIDE DEF Act
<1>3. ASSUME NEW a, Within(a, q)  PROVE Within(a, Append(q, b))
  <2>1. PICK i \in 1..Len(q) : q[i] = a
    BY <1>3 DEF Within
  <2>2. i \in 1..Len(Append(q, b)) /\ Append(q, b)[i] = a
    BY <1>1, <1>2, <2>1
  <2> QED
    BY <2>2 DEF Within
<1>4. Within(b, Append(q, b))
  BY <1>1, <1>2 DEF Within
<1>5. ASSUME NEW a, Within(a, Append(q, b)), a # b  PROVE Within(a, q)
  <2>1. PICK i \in 1..Len(Append(q, b)) : Append(q, b)[i] = a
    BY <1>5 DEF Within
  <2>2. i \in 1..Len(q) /\ q[i] = a
    BY <1>1, <1>2, <1>5, <2>1
  <2> QED
    BY <2>2 DEF Within
<1> QED
  BY <1>1, <1>3, <1>4, <1>5

LEMMA WithinTail ==
  ASSUME NEW q \in Seq(Act), q # <<>>
  PROVE  /\ Head(q) \in Act /\ Tail(q) \in Seq(Act) /\ (Len(q) = 1 <=> Tail(q) = <<>>)
         /\ \A a : Within(a, q) <=> a = Head(q) \/ Within(a, Tail(q))
<1>1. /\ Head(q) \in Act /\ Tail(q) \in Seq(Act) /\ Len(Tail(q)) = Len(q) - 1 /\ Len(q) \in Nat \ {0}
      /\ Head(q) = q[1] /\ \A i \in 1..Len(q) - 1 : Tail(q)[i] = q[i + 1]
  OBVIOUS
<1>2. Len(q) = 1 <=> Tail(q) = <<>>
  BY <1>1, EmptySeq
<1>3. ASSUME NEW a, Within(a, q), a # Head(q)  PROVE Within(a, Tail(q))
  <2>1. PICK i \in 1..Len(q) : q[i] = a
    BY <1>3 DEF Within
  <2>2. i - 1 \in 1..Len(q) - 1 /\ Tail(q)[i - 1] = q[i]
    BY <1>1, <1>3, <2>1
  <2> QED
    BY <1>1, <2>1, <2>2 DEF Within
<1>4. Within(Head(q), q)
  BY <1>1 DEF Within
<1>5. ASSUME NEW a, Within(a, Tail(q))  PROVE Within(a, q)
  <2>1. PICK i \in 1..Len(Tail(q)) : Tail(q)[i] = a
    BY <1>5 DEF Within
  <2>2. i + 1 \in 1..Len(q) /\ q[i + 1] = a
    BY <1>1, <2>1
  <2> QED
    BY <2>2 DEF Within
<1> QED
  BY <1>1, <1>2, <1>3, <1>4, <1>5

\* SetToSeq lists a finite set.
LEMMA ListsSet ==
  ASSUME NEW S, IsFiniteSet(S), S \subseteq Act
  PROVE  Voice!SetToSeq(S) \in Seq(Act) /\ \A a : Within(a, Voice!SetToSeq(S)) <=> a \in S
<1> DEFINE n == Cardinality(S)
           q == Voice!SetToSeq(S)
<1>1. n \in Nat /\ \E f \in [1..n -> S] : Voice!IsInjective(f)
  BY FS_CardinalityType DEF ExistsBijection, Bijection, Injection, Voice!IsInjective, IsInjective
<1>2. Voice!Cardinality(S) = n
  BY DEF Voice!Cardinality, Cardinality
<1>3. q \in [1..n -> S] /\ Voice!IsInjective(q)
  BY <1>1, <1>2 DEF Voice!SetToSeq
<1> HIDE DEF n, q
<1>4. Cardinality(1..n) = n /\ IsFiniteSet(1..n)
  BY <1>1, FS_Interval
<1>5. q \in Surjection(1..n, S)
  <2>1. q \in Injection(1..n, S)
    BY <1>3 DEF Injection, Voice!IsInjective, IsInjective
  <2> QED
    BY <1>4, <2>1, FS_Injection DEF n
<1>6. q \in Seq(Act) /\ Len(q) = n
  BY <1>1, <1>3
<1> QED
  BY <1>3, <1>5, <1>6 DEF Within, Surjection, q

\* The actions of a body are finitely many, one for each live channel and setting sent.
LEMMA ActionsOf ==
  ASSUME NEW b, DOMAIN b \subseteq Voice!Setting, \A s \in DOMAIN b : b[s] \in Voice!Value
  PROVE  /\ Voice!Actions(b) \subseteq Act /\ IsFiniteSet(Voice!Actions(b))
         /\ \A a \in Voice!Actions(b) :
              a.c \in Voice!Live /\ a.s \in DOMAIN b /\ Voice!Sent(b, a.s) /\ a.v = b[a.s]
         /\ \A c \in Voice!Live, s \in DOMAIN b :
              Voice!Sent(b, s) => \E a \in Voice!Actions(b) : a.c = c /\ a.s = s
<1> DEFINE A == Voice!Actions(b)
<1>1. /\ A \subseteq Act
      /\ \A a \in A : a.c \in Voice!Live /\ a.s \in DOMAIN b /\ Voice!Sent(b, a.s) /\ a.v = b[a.s]
  BY DEF Voice!Actions, Act, Voice!Live
<1>2. ASSUME NEW c \in Voice!Live, NEW s \in DOMAIN b, Voice!Sent(b, s)
      PROVE  \E a \in A : a.c = c /\ a.s = s
  <2>1. [c |-> c, s |-> s, v |-> b[s]] \in A
    BY <1>2 DEF Voice!Actions
  <2> QED
    BY <2>1
<1> HIDE DEF A
<1>3. IsFiniteSet(A)
  <2> DEFINE g == [a \in A |-> <<a.c, a.s>>]
  <2>1. IsFiniteSet(Channel \X Voice!Setting)
    BY VoiceAssumption, FS_Union, FS_Product DEF Voice!Setting
  <2>2. ASSUME NEW a \in A  PROVE <<a.c, a.s>> \in Channel \X Voice!Setting
    BY <1>1 DEF Act
  <2>3. ASSUME NEW a \in A, NEW d \in A, <<a.c, a.s>> = <<d.c, d.s>>  PROVE a = d
    BY <1>1, <2>3 DEF Act
  <2>4. g \in Injection(A, Channel \X Voice!Setting)
    BY <2>2, <2>3 DEF Injection, IsInjective
  <2> QED
    BY <2>1, <2>4, FS_Injection
<1> QED
  BY <1>1, <1>2, <1>3 DEF A

\* Request r becomes x; the others stay, but may be told that they come late.
Moves(r, x) ==
  /\ AskedOK(x) /\ call' = [q \in Request |-> call'[q]] /\ call'[r] = x
  /\ \A q \in Request : q # r =>
       /\ AskedOK(call'[q])
       /\ call'[q].at = call[q].at /\ call'[q].body = call[q].body /\ call'[q].todo = call[q].todo

LEMMA IdleAsked == AskedOK(Voice!Idle) /\ Voice!Idle.at = "idle" /\ Voice!Idle.todo = <<>>
  BY DEF AskedOK, Voice!Idle

LEMMA MoveSteps ==
  ASSUME FollowTypeOK, NEW r \in Request, NEW x, AskedOK(x), call' = [call EXCEPT ![r] = x]
  PROVE  Moves(r, x)
<1>1. /\ call' = [q \in Request |-> call'[q]] /\ call'[r] = x
      /\ \A q \in Request : q # r => call'[q] = call[q]
  BY DEF FollowTypeOK
<1> QED
  BY <1>1 DEF FollowTypeOK, Moves

LEMMA LateSteps ==
  ASSUME FollowTypeOK, NEW r \in Request, NEW x, AskedOK(x),
         call' = [q \in Request |-> IF q # r THEN [call[q] EXCEPT !.late = @ \/ Voice!Writes(q)] ELSE x]
  PROVE  Moves(r, x)
<1>1. ASSUME NEW q \in Request, q # r
      PROVE  /\ AskedOK(call'[q])
             /\ call'[q].at = call[q].at /\ call'[q].body = call[q].body /\ call'[q].todo = call[q].todo
  <2> DEFINE d == call[q]
             e == [d EXCEPT !.late = @ \/ Voice!Writes(q)]
  <2>1. AskedOK(d)
    BY DEF FollowTypeOK
  <2>2. call'[q] = e
    BY <1>1
  <2>3. DOMAIN e = DOMAIN d /\ e.at = d.at /\ e.body = d.body /\ e.todo = d.todo /\ e.had = d.had
    BY <2>1 DEF AskedOK
  <2> HIDE DEF e, d
  <2>4. AskedOK(e)
    BY <2>1, <2>3 DEF AskedOK
  <2> QED
    BY <2>2, <2>3, <2>4 DEF d
<1>2. call' = [q \in Request |-> call'[q]] /\ call'[r] = x
  OBVIOUS
<1> QED
  BY <1>1, <1>2 DEF Moves

\* What is queued once r has become x.
LEMMA QueuedMoves ==
  ASSUME NEW r \in Request, NEW x, Moves(r, x), NEW a
  PROVE  Coming(a)' <=> \/ Within(a, pending') \/ Within(a, x.todo)
                        \/ \E q \in Request : q # r /\ Within(a, call[q].todo)
<1>1. Coming(a)' <=> Within(a, pending') \/ \E q \in Request : Within(a, call'[q].todo)
  BY DEF Coming, Within
<1> QED
  BY <1>1 DEF Moves

LEMMA TypesKept ==
  ASSUME FollowTypeOK, NEW r \in Request, NEW x, Moves(r, x), UNCHANGED <<live, wanted>>,
         preset' \in {None} \cup Settings, pending' \in Seq(Act), mixed' \in BOOLEAN
  PROVE  FollowTypeOK'
<1>1. Voice!Live' = Voice!Live
  BY DEF Voice!Live
<1>2. call' = [q \in Request |-> call'[q]] /\ \A q \in Request : AskedOK(call[q])'
  BY DEF Moves, AskedOK
<1> QED
  BY <1>1, <1>2 DEF FollowTypeOK

\* While nothing else is under way, nothing is queued and every channel is as it was asked for.
LEMMA Quiet ==
  ASSUME FollowOK, ~mixed, NEW r \in Request,
         call[r].at \notin {"idle", "owned", "queue"} \/ ~Voice!Busy
  PROVE  /\ pending = <<>> /\ \A q \in Request : call[q].todo = <<>> /\ (q # r => call[q].at = "idle")
         /\ \A a : ~Coming(a)
         /\ \A c \in Voice!Live, s \in Voice!Setting : live[c][s] = wanted[c][s]
<1>1. pending = <<>> /\ \A q \in Request : q # r => call[q].at = "idle"
  BY DEF FollowOK, Following, AloneOK, Voice!Busy
<1>2. call[r].at \notin {"owned", "queue"}
  BY DEF Voice!Busy
<1>3. \A q \in Request : call[q].todo = <<>> /\ call[q].at # "owned"
  BY <1>1, <1>2 DEF FollowOK, FollowTypeOK, AskedOK
<1>4. \A a : ~Coming(a)
  BY <1>1, <1>3, WithinSteps DEF Coming
<1>5. \A c \in Voice!Live, s \in Voice!Setting : live[c][s] = wanted[c][s]
  BY <1>3, <1>4 DEF FollowOK, Following, SettingOK, Sends, Owned
<1> QED
  BY <1>1, <1>3, <1>4, <1>5

\* A request that begins, reads its row, or is over, while nothing else is under way.
LEMMA QuietStep ==
  ASSUME FollowOK, NEW r \in Request, NEW x, Moves(r, x), UNCHANGED <<live, wanted, pending>>,
         x.todo = <<>>, x.at # "owned", call[r].at \notin {"owned", "queue"},
         preset' \in {None} \cup Settings, mixed' \in BOOLEAN,
         ~mixed' => ~mixed /\ (call[r].at # "idle" \/ ~Voice!Busy)
  PROVE  FollowOK'
<1>1. FollowTypeOK'
  BY TypesKept DEF FollowOK, FollowTypeOK
<1>2. ASSUME ~mixed'  PROVE Following'
  <2>1. /\ pending = <<>> /\ \A q \in Request : call[q].todo = <<>> /\ (q # r => call[q].at = "idle")
        /\ \A c \in Voice!Live, s \in Voice!Setting : live[c][s] = wanted[c][s]
    BY <1>2, Quiet
  <2>2. /\ \A q \in Request : q # r => call'[q].at = "idle"
        /\ call'[r].at # "owned" /\ pending' = <<>>
    BY <2>1 DEF Moves
  <2>3. \A a : ~Coming(a)'
    BY <2>1, QueuedMoves, WithinSteps
  <2>4. AloneOK'
    BY <2>2 DEF AloneOK
  <2>5. QueuedOK'
    BY <2>3 DEF QueuedOK
  <2>6. \A q \in Request : OwnedOK(q)'
    BY <2>2 DEF OwnedOK, Owned
  <2>7. \A c \in Voice!Live', s \in Voice!Setting : SettingOK(c, s)'
    BY <2>1 DEF SettingOK, Voice!Live
  <2> QED
    BY <2>4, <2>5, <2>6, <2>7 DEF Following
<1> QED
  BY <1>1, <1>2 DEF FollowOK

LEMMA BodyFacts ==
  ASSUME NEW b \in Voice!Bodies
  PROVE  DOMAIN b \subseteq Voice!Setting /\ \A s \in DOMAIN b : b[s] \in Voice!Value
  BY DEF Voice!Bodies

LEMMA FollowsSave ==
  ASSUME FollowOK, NEW r \in Request, NEW b \in Voice!Bodies, NEW creating, NEW apply,
         Voice!Save(r, b, creating, apply)
  PROVE  FollowOK'
<1> DEFINE x == [Voice!Idle EXCEPT !.at = "read", !.body = b, !.creating = creating, !.apply = apply]
<1>1. AskedOK(x) /\ x.todo = <<>> /\ x.at = "read"
  BY BodyFacts DEF AskedOK, Voice!Idle
<1>2. call' = [call EXCEPT ![r] = x]
  BY DEF Voice!Save
<1> HIDE DEF x
<1>3. Moves(r, x)
  BY <1>1, <1>2, MoveSteps DEF FollowOK
<1>4. /\ UNCHANGED <<live, wanted, pending, preset>> /\ mixed' = (mixed \/ Voice!Busy)
      /\ call[r].at = "idle"
  BY DEF Voice!Save, Voice!Begin, Voice!tables
<1>5. mixed' \in BOOLEAN /\ preset' \in {None} \cup Settings
  BY <1>4 DEF FollowOK, FollowTypeOK
<1> QED
  BY <1>1, <1>3, <1>4, <1>5, QuietStep

LEMMA FollowsClear ==
  ASSUME FollowOK, NEW r \in Request, Voice!Clear(r)
  PROVE  FollowOK'
<1> DEFINE x == [Voice!Idle EXCEPT !.at = "clear"]
<1>1. AskedOK(x) /\ x.todo = <<>> /\ x.at = "clear"
  BY DEF AskedOK, Voice!Idle
<1>2. call' = [call EXCEPT ![r] = x]
  BY DEF Voice!Clear
<1> HIDE DEF x
<1>3. Moves(r, x)
  BY <1>1, <1>2, MoveSteps DEF FollowOK
<1>4. /\ UNCHANGED <<live, wanted, pending, preset>> /\ mixed' = (mixed \/ Voice!Busy)
      /\ call[r].at = "idle"
  BY DEF Voice!Clear, Voice!Begin, Voice!tables
<1>5. mixed' \in BOOLEAN /\ preset' \in {None} \cup Settings
  BY <1>4 DEF FollowOK, FollowTypeOK
<1> QED
  BY <1>1, <1>3, <1>4, <1>5, QuietStep

LEMMA FollowsReading ==
  ASSUME FollowOK, NEW r \in Request, Voice!ReadPreset(r) \/ Voice!ReadCleared(r)
  PROVE  FollowOK'
<1> DEFINE reads == [call[r] EXCEPT !.at = "write", !.had = preset]
           removes == [call[r] EXCEPT !.at = "remove"]
<1>1. /\ AskedOK(call[r]) /\ call[r].at \in {"read", "clear"} /\ call[r].todo = <<>>
      /\ preset \in {None} \cup Settings /\ mixed \in BOOLEAN
  BY DEF FollowOK, FollowTypeOK, AskedOK, Voice!ReadPreset, Voice!ReadCleared
<1>2. AskedOK(reads) /\ reads.todo = <<>> /\ reads.at = "write"
  BY <1>1 DEF AskedOK
<1>3. AskedOK(removes) /\ removes.todo = <<>> /\ removes.at = "remove"
  BY <1>1 DEF AskedOK
<1>4. \E x \in {Voice!Idle, reads, removes} : call' = [call EXCEPT ![r] = x]
  BY DEF Voice!ReadPreset, Voice!ReadCleared
<1>5. UNCHANGED <<live, wanted, pending, preset, mixed>>
  BY DEF Voice!ReadPreset, Voice!ReadCleared, Voice!tables
<1> HIDE DEF reads, removes
<1>6. PICK x : call' = [call EXCEPT ![r] = x] /\ AskedOK(x) /\ x.todo = <<>> /\ x.at # "owned"
  BY <1>2, <1>3, <1>4, IdleAsked
<1>7. Moves(r, x)
  BY <1>6, MoveSteps DEF FollowOK
<1> QED
  BY <1>1, <1>5, <1>6, <1>7, QuietStep

LEMMA FollowsRemove ==
  ASSUME FollowOK, NEW r \in Request, Voice!RemovePreset(r)
  PROVE  FollowOK'
<1>1. /\ call[r].at = "remove" /\ preset' = None /\ UNCHANGED <<live, wanted, pending, mixed>>
      /\ call' = [q \in Request |-> IF q # r THEN [call[q] EXCEPT !.late = @ \/ Voice!Writes(q)]
                                    ELSE Voice!Idle]
  BY DEF Voice!RemovePreset
<1>2. Moves(r, Voice!Idle)
  BY <1>1, LateSteps, IdleAsked DEF FollowOK
<1>3. mixed' \in BOOLEAN
  BY <1>1 DEF FollowOK, FollowTypeOK
<1> QED
  BY <1>1, <1>2, <1>3, IdleAsked, QuietStep

\* The row says what the request asked for.
LEMMA MergedRow ==
  ASSUME NEW c, AskedOK(c)
  PROVE  /\ Voice!Merged(c.body, c.had) \in Settings
         /\ \A s \in DOMAIN c.body : Voice!Merged(c.body, c.had)[s] = c.body[s]
<1>1. \A s \in Voice!Setting : c.had # None => c.had[s] \in Voice!Value
  BY DEF AskedOK, Settings
<1> QED
  BY <1>1 DEF AskedOK, Settings, Voice!Merged, Voice!Value

LEMMA FollowsWrite ==
  ASSUME FollowOK, NEW r \in Request, Voice!WritePreset(r)
  PROVE  FollowOK'
<1> DEFINE b == call[r].body
           sends == [call[r] EXCEPT !.at = "owned"]
           x == IF call[r].apply THEN sends ELSE Voice!Idle
<1>1. /\ AskedOK(call[r]) /\ call[r].at = "write" /\ call[r].todo = <<>> /\ mixed \in BOOLEAN
      /\ DOMAIN b \subseteq Voice!Setting /\ \A s \in DOMAIN b : b[s] \in Voice!Value
  BY DEF FollowOK, FollowTypeOK, AskedOK, Voice!WritePreset, Voice!Writes
<1>2. /\ AskedOK(sends) /\ sends.todo = <<>> /\ sends.at = "owned" /\ sends.body = b
  BY <1>1 DEF AskedOK
<1>3. /\ UNCHANGED <<live, pending, mixed>>
      /\ preset' = Voice!Merged(b, call[r].had)
      /\ call' = [q \in Request |-> IF q # r THEN [call[q] EXCEPT !.late = @ \/ Voice!Writes(q)] ELSE x]
  BY DEF Voice!WritePreset
<1>4. preset' \in Settings /\ \A s \in DOMAIN b : preset'[s] = b[s]
  BY <1>1, <1>3, MergedRow
<1>5. wanted' = [c \in Channel |->
        IF call[r].apply /\ c \in Voice!Live
        THEN [s \in Voice!Setting |-> IF s \in DOMAIN b /\ Voice!Sent(b, s) THEN b[s] ELSE wanted[c][s]]
        ELSE wanted[c]]
  BY DEF Voice!WritePreset, Voice!Sent
<1>6. CASE ~call[r].apply
  <2>1. wanted' = wanted
    BY <1>5, <1>6 DEF FollowOK, FollowTypeOK
  <2>2. Moves(r, Voice!Idle)
    BY <1>3, <1>6, LateSteps, IdleAsked DEF FollowOK
  <2> QED
    BY <1>1, <1>3, <1>4, <2>1, <2>2, IdleAsked, QuietStep
<1>7. CASE call[r].apply
  <2> HIDE DEF sends
  <2>1. Moves(r, sends)
    BY <1>2, <1>3, <1>7, LateSteps DEF FollowOK
  <2>2. Voice!Live' = Voice!Live /\ Voice!Live \subseteq Channel
    BY <1>3 DEF Voice!Live
  <2>3. /\ wanted' \in [Channel -> {None} \cup Settings]
        /\ \A c \in Voice!Live :
             /\ wanted'[c] \in Settings
             /\ \A s \in Voice!Setting :
                  wanted'[c][s] = IF s \in DOMAIN b /\ Voice!Sent(b, s) THEN b[s] ELSE wanted[c][s]
    <3>1. \A c \in Voice!Live : wanted[c] \in Settings
      BY DEF FollowOK, FollowTypeOK
    <3>2. ASSUME NEW c \in Voice!Live
          PROVE  [s \in Voice!Setting |-> IF s \in DOMAIN b /\ Voice!Sent(b, s) THEN b[s] ELSE wanted[c][s]]
                    \in Settings
      BY <1>1, <3>1 DEF Settings
    <3>3. wanted \in [Channel -> {None} \cup Settings]
      BY DEF FollowOK, FollowTypeOK
    <3> QED
      BY <1>5, <1>7, <2>2, <3>2, <3>3
  <2>4. FollowTypeOK'
    <3>1. call' = [q \in Request |-> call'[q]] /\ \A q \in Request : AskedOK(call[q])'
      BY <2>1 DEF Moves, AskedOK
    <3> QED
      BY <1>1, <1>3, <1>4, <2>2, <2>3, <3>1 DEF FollowOK, FollowTypeOK
  <2>5. ASSUME ~mixed'  PROVE Following'
    <3>1. /\ pending = <<>> /\ \A q \in Request : call[q].todo = <<>> /\ (q # r => call[q].at = "idle")
          /\ \A c \in Voice!Live, s \in Voice!Setting : live[c][s] = wanted[c][s]
      BY <1>1, <1>3, <2>5, Quiet
    <3>2. /\ \A q \in Request : q # r => call'[q].at = "idle"
          /\ call'[r] = sends /\ pending' = <<>>
      BY <1>3, <2>1, <3>1 DEF Moves
    <3>3. \A a : ~Coming(a)'
      BY <1>2, <2>1, <3>1, <3>2, QueuedMoves, WithinSteps
    <3>4. AloneOK'
      BY <3>2 DEF AloneOK
    <3>5. QueuedOK'
      BY <3>3 DEF QueuedOK
    <3>6. ASSUME NEW q \in Request  PROVE OwnedOK(q)'
      <4>1. None \notin Settings
        BY VoiceAssumption DEF Settings, Voice!Setting, Voice!Value
      <4>2. CASE q = r
        <5>1. call'[q].body = b /\ preset' # None
          BY <1>2, <1>4, <3>2, <4>1, <4>2
        <5>2. \A s \in DOMAIN b : Voice!Sent(b, s) => \A c \in Voice!Live : wanted'[c][s] = b[s]
          BY <1>1, <2>3
        <5> QED
          BY <1>4, <2>2, <5>1, <5>2 DEF OwnedOK, Voice!Sent
      <4> QED
        BY <3>2, <4>2 DEF OwnedOK, Owned
    <3>7. ASSUME NEW c \in Voice!Live, NEW s \in Voice!Setting  PROVE SettingOK(c, s)'
      <4>1. CASE s \in DOMAIN b /\ Voice!Sent(b, s)
        BY <1>2, <3>2, <4>1 DEF SettingOK, Sends, Owned, Voice!Sent
      <4>2. CASE ~(s \in DOMAIN b /\ Voice!Sent(b, s))
        BY <1>3, <2>3, <3>1, <4>2 DEF SettingOK
      <4> QED
        BY <4>1, <4>2
    <3> QED
      BY <2>2, <3>4, <3>5, <3>6, <3>7 DEF Following
  <2> QED
    BY <2>4, <2>5 DEF FollowOK
<1> QED
  BY <1>6, <1>7

LEMMA FollowsReadLive ==
  ASSUME FollowOK, NEW r \in Request, Voice!ReadLive(r)
  PROVE  FollowOK'
<1> DEFINE b == call[r].body
           todo == Voice!SetToSeq(Voice!Actions(b))
           queues == [call[r] EXCEPT !.at = "queue", !.todo = todo]
           x == IF todo = <<>> THEN Voice!Idle ELSE queues
<1>1. /\ AskedOK(call[r]) /\ call[r].at = "owned" /\ mixed \in BOOLEAN
      /\ DOMAIN b \subseteq Voice!Setting /\ \A s \in DOMAIN b : b[s] \in Voice!Value
  BY DEF FollowOK, FollowTypeOK, AskedOK, Voice!ReadLive
<1>2. call' = [call EXCEPT ![r] = x] /\ UNCHANGED <<preset, live, pending, wanted, mixed>>
  BY DEF Voice!ReadLive, Voice!tables
<1>3. todo \in Seq(Act) /\ \A a : Within(a, todo) <=> a \in Voice!Actions(b)
  BY <1>1, ActionsOf, ListsSet
<1> HIDE DEF todo
<1>4. AskedOK(x) /\ x.todo = todo /\ x.at \in {"idle", "queue"}
  <2>1. (AskedOK(queues) /\ queues.todo = todo /\ queues.at = "queue") \/ todo = <<>>
    BY <1>1, <1>3 DEF AskedOK
  <2> HIDE DEF queues
  <2> QED
    BY <2>1, IdleAsked
<1> HIDE DEF x
<1>5. Moves(r, x)
  BY <1>2, <1>4, MoveSteps DEF FollowOK
<1>6. FollowTypeOK'
  BY <1>2, <1>5, TypesKept DEF FollowOK, FollowTypeOK
<1>7. ASSUME ~mixed'  PROVE Following'
  <2>1. AloneOK /\ QueuedOK /\ OwnedOK(r) /\ \A c \in Voice!Live, s \in Voice!Setting : SettingOK(c, s)
    BY <1>2, <1>7 DEF FollowOK, Following
  <2>2. \A q \in Request : q # r => call[q].at = "idle" /\ call[q].todo = <<>>
    BY <1>1, <2>1 DEF AloneOK, FollowOK, FollowTypeOK, AskedOK
  <2>3. pending = <<>> /\ call[r].todo = <<>>
    BY <1>1, <2>1 DEF AloneOK, AskedOK
  <2>4. \A a : ~Coming(a)
    BY <2>2, <2>3, WithinSteps DEF Coming
  <2>5. \A a : Coming(a)' <=> a \in Voice!Actions(b)
    BY <1>2, <1>3, <1>4, <1>5, <2>2, <2>3, QueuedMoves, WithinSteps
  <2>6. /\ \A q \in Request : call'[q].at \in {"idle", "queue"} /\ (q # r => call'[q].at = "idle")
    BY <1>4, <1>5, <2>2 DEF Moves
  <2>7. AloneOK'
    BY <2>6 DEF AloneOK
  <2>8. \A q \in Request : OwnedOK(q)'
    BY <2>6 DEF OwnedOK, Owned
  <2>9. Voice!Live' = Voice!Live
    BY <1>2 DEF Voice!Live
  <2>10. QueuedOK'
    <3>1. ASSUME NEW a \in Act, Coming(a)'
          PROVE  live[a.c] # None /\ a.v = wanted[a.c][a.s]
      <4>1. a.c \in Voice!Live /\ a.s \in DOMAIN b /\ Voice!Sent(b, a.s) /\ a.v = b[a.s]
        BY <1>1, <2>5, <3>1, ActionsOf
      <4> QED
        BY <1>1, <2>1, <4>1 DEF OwnedOK, Owned, Voice!Live
    <3> QED
      BY <1>2, <3>1 DEF QueuedOK
  <2>11. ASSUME NEW c \in Voice!Live, NEW s \in Voice!Setting  PROVE SettingOK(c, s)'
    <3>1. live[c][s] = wanted[c][s] \/ Sends(r, s)
      BY <1>1, <2>1, <2>2, <2>4 DEF SettingOK, Sends, Owned
    <3>2. ASSUME Sends(r, s)  PROVE \E a \in Act : Coming(a)' /\ a.c = c /\ a.s = s
      <4>1. PICK a \in Voice!Actions(b) : a.c = c /\ a.s = s
        BY <1>1, <3>2, ActionsOf DEF Sends
      <4>2. a \in Act
        BY <1>1, ActionsOf
      <4> QED
        BY <2>5, <4>1, <4>2
    <3> QED
      BY <1>2, <3>1, <3>2 DEF SettingOK
  <2> QED
    BY <2>7, <2>8, <2>9, <2>10, <2>11 DEF Following
<1> QED
  BY <1>6, <1>7 DEF FollowOK

LEMMA FollowsEnqueue ==
  ASSUME FollowOK, NEW r \in Request, Voice!Enqueue(r)
  PROVE  FollowOK'
<1> DEFINE todo == call[r].todo
           queues == [call[r] EXCEPT !.todo = Tail(todo)]
           x == IF Len(todo) = 1 THEN Voice!Idle ELSE queues
<1>1. /\ AskedOK(call[r]) /\ call[r].at = "queue" /\ mixed \in BOOLEAN
      /\ todo \in Seq(Act) /\ todo # <<>> /\ pending \in Seq(Act)
  BY DEF FollowOK, FollowTypeOK, AskedOK, Voice!Enqueue
<1>2. /\ call' = [call EXCEPT ![r] = x] /\ pending' = Append(pending, Head(todo))
      /\ UNCHANGED <<preset, live, wanted, mixed>>
  <2>1. pending' = Append(pending, Head(todo)) /\ UNCHANGED <<preset, live, wanted, mixed>>
    BY DEF Voice!Enqueue
  <2>2. call' = [call EXCEPT ![r] = IF Len(call[r].todo) = 1 THEN Voice!Idle
                                    ELSE [call[r] EXCEPT !.todo = Tail(call[r].todo)]]
    BY DEF Voice!Enqueue
  <2> QED
    BY <2>1, <2>2
<1>3. /\ Head(todo) \in Act /\ Tail(todo) \in Seq(Act) /\ (Len(todo) = 1 <=> Tail(todo) = <<>>)
      /\ \A a : Within(a, todo) <=> a = Head(todo) \/ Within(a, Tail(todo))
  BY <1>1, WithinTail
<1>4. pending' \in Seq(Act) /\ \A a : Within(a, pending') <=> Within(a, pending) \/ a = Head(todo)
  BY <1>1, <1>2, <1>3, WithinAppend
<1>5. AskedOK(x) /\ x.todo = Tail(todo) /\ x.at \in {"idle", "queue"}
  <2>1. (AskedOK(queues) /\ queues.todo = Tail(todo) /\ queues.at = "queue") \/ Len(todo) = 1
    BY <1>1, <1>3 DEF AskedOK
  <2> HIDE DEF queues
  <2> QED
    BY <1>3, <2>1, IdleAsked
<1> HIDE DEF x
<1>6. Moves(r, x)
  BY <1>2, <1>5, MoveSteps DEF FollowOK
<1>7. FollowTypeOK'
  BY <1>2, <1>4, <1>6, TypesKept DEF FollowOK, FollowTypeOK
<1>8. ASSUME ~mixed'  PROVE Following'
  <2>1. AloneOK /\ QueuedOK /\ \A c \in Voice!Live, s \in Voice!Setting : SettingOK(c, s)
    BY <1>2, <1>8 DEF FollowOK, Following
  <2>2. \A q \in Request : q # r => call[q].at = "idle"
    BY <1>1, <2>1 DEF AloneOK
  <2>3. \A q \in Request : call'[q].at \in {"idle", "queue"} /\ (q # r => call'[q].at = "idle")
    BY <1>5, <1>6, <2>2 DEF Moves
  <2>4. \A a : Coming(a)' <=> Coming(a)
    <3>1. ASSUME NEW a  PROVE Coming(a)' <=> Coming(a)
      <4>1. Coming(a)' <=> \/ Within(a, pending') \/ Within(a, Tail(todo))
                           \/ \E q \in Request : q # r /\ Within(a, call[q].todo)
        BY <1>5, <1>6, QueuedMoves
      <4>2. Coming(a) <=> \/ Within(a, pending) \/ Within(a, todo)
                          \/ \E q \in Request : q # r /\ Within(a, call[q].todo)
        BY DEF Coming
      <4> QED
        BY <1>3, <1>4, <4>1, <4>2
    <3> QED
      BY <3>1
  <2>5. AloneOK'
    BY <2>3 DEF AloneOK
  <2>6. \A q \in Request : OwnedOK(q)'
    BY <2>3 DEF OwnedOK, Owned
  <2>7. Voice!Live' = Voice!Live
    BY <1>2 DEF Voice!Live
  <2>8. QueuedOK'
    BY <1>2, <2>1, <2>4, <2>7 DEF QueuedOK
  <2>9. ASSUME NEW c \in Voice!Live, NEW s \in Voice!Setting  PROVE SettingOK(c, s)'
    <3>1. \A q \in Request : ~Sends(q, s)
      BY <1>1, <2>2 DEF Sends, Owned
    <3> QED
      BY <1>2, <2>1, <2>4, <3>1 DEF SettingOK
  <2> QED
    BY <2>5, <2>6, <2>7, <2>8, <2>9 DEF Following
<1> QED
  BY <1>7, <1>8 DEF FollowOK

LEMMA FollowsFail ==
  ASSUME FollowOK, NEW r \in Request, Voice!Fail(r)
  PROVE  FollowOK'
<1>1. /\ call' = [call EXCEPT ![r] = Voice!Idle] /\ mixed' = TRUE
      /\ UNCHANGED <<preset, live, pending, wanted>>
  BY DEF Voice!Fail, Voice!tables
<1>2. Moves(r, Voice!Idle)
  BY <1>1, MoveSteps, IdleAsked DEF FollowOK
<1>3. FollowTypeOK'
  BY <1>1, <1>2, TypesKept DEF FollowOK, FollowTypeOK
<1> QED
  BY <1>1, <1>3 DEF FollowOK

LEMMA FollowsManage ==
  ASSUME FollowOK, NEW r \in Request, NEW c \in Channel, NEW s \in Voice!Setting, NEW v \in Voice!Value,
         Voice!Manage(r, c, s, v)
  PROVE  FollowOK'
<1> DEFINE b == [c |-> c, s |-> s, v |-> v]
           x == [Voice!Idle EXCEPT !.at = "queue", !.todo = <<b>>]
<1>1. b \in Act /\ b.c = c /\ b.s = s /\ b.v = v
  BY DEF Act
<1> HIDE DEF b
<1>2. AskedOK(x) /\ x.todo = <<b>> /\ x.at = "queue"
  BY <1>1, WithinSteps DEF AskedOK, Voice!Idle
<1>3. call' = [call EXCEPT ![r] = x]
  BY DEF Voice!Manage, b
<1> HIDE DEF x
<1>4. Moves(r, x)
  BY <1>2, <1>3, MoveSteps DEF FollowOK
<1>5. /\ c \in Voice!Live /\ UNCHANGED <<live, pending, preset>> /\ mixed' = (mixed \/ Voice!Busy)
      /\ call[r].at = "idle" /\ wanted' = [wanted EXCEPT ![c][s] = v]
  BY DEF Voice!Manage, Voice!Begin, Voice!tables
<1>6. /\ wanted' \in [Channel -> {None} \cup Settings] /\ wanted'[c] \in Settings /\ wanted'[c][s] = v
      /\ \A t \in Voice!Setting : t # s => wanted'[c][t] = wanted[c][t]
      /\ \A d \in Channel : d # c => wanted'[d] = wanted[d]
  <2>1. wanted \in [Channel -> {None} \cup Settings] /\ wanted[c] \in Settings
    BY <1>5 DEF FollowOK, FollowTypeOK
  <2>2. wanted = [d \in Channel |-> wanted[d]]
    BY <2>1
  <2>3. /\ wanted' = [d \in Channel |-> wanted'[d]] /\ wanted'[c] \in Settings /\ wanted'[c][s] = v
        /\ \A t \in Voice!Setting : t # s => wanted'[c][t] = wanted[c][t]
        /\ \A d \in Channel : d # c => wanted'[d] = wanted[d]
    BY <1>5, <2>1, <2>2 DEF Settings
  <2> QED
    BY <2>1, <2>3
<1>7. Voice!Live' = Voice!Live /\ Voice!Live \subseteq Channel
  BY <1>5 DEF Voice!Live
<1>8. FollowTypeOK'
  <2>1. call' = [q \in Request |-> call'[q]] /\ \A q \in Request : AskedOK(call[q])'
    BY <1>4 DEF Moves, AskedOK
  <2> QED
    BY <1>5, <1>6, <1>7, <2>1 DEF FollowOK, FollowTypeOK
<1>9. ASSUME ~mixed'  PROVE Following'
  <2>1. /\ pending = <<>> /\ \A q \in Request : call[q].todo = <<>> /\ (q # r => call[q].at = "idle")
        /\ \A d \in Voice!Live, t \in Voice!Setting : live[d][t] = wanted[d][t]
    BY <1>5, <1>9, Quiet
  <2>2. \A a : Coming(a)' <=> a = b
    <3>1. \A a : ~Within(a, pending') /\ (Within(a, x.todo) <=> a = b)
          /\ \A q \in Request : ~Within(a, call[q].todo)
      BY <1>1, <1>2, <1>5, <2>1, WithinSteps
    <3> QED
      BY <1>4, <3>1, QueuedMoves
  <2>3. \A q \in Request : call'[q].at \in {"idle", "queue"} /\ (q # r => call'[q].at = "idle")
    BY <1>2, <1>4, <2>1 DEF Moves
  <2>4. AloneOK'
    BY <2>3 DEF AloneOK
  <2>5. \A q \in Request : OwnedOK(q)'
    BY <2>3 DEF OwnedOK, Owned
  <2>6. QueuedOK'
    BY <1>1, <1>5, <1>6, <2>2 DEF QueuedOK, Voice!Live
  <2>7. ASSUME NEW d \in Voice!Live, NEW t \in Voice!Setting  PROVE SettingOK(d, t)'
    <3>1. CASE d = c /\ t = s
      BY <1>1, <2>2, <3>1 DEF SettingOK
    <3>2. CASE ~(d = c /\ t = s)
      <4>1. wanted'[d][t] = wanted[d][t]
        BY <1>6, <1>7, <3>2
      <4> QED
        BY <1>5, <2>1, <4>1 DEF SettingOK
    <3> QED
      BY <3>1, <3>2
  <2> QED
    BY <1>7, <2>4, <2>5, <2>6, <2>7 DEF Following
<1> QED
  BY <1>8, <1>9 DEF FollowOK

\* What the bot does leaves the requests and the row alone.
LEMMA BotTypes ==
  ASSUME FollowTypeOK, UNCHANGED <<preset, call>>, mixed' \in BOOLEAN, pending' \in Seq(Act),
         live' \in [Channel -> {None, Gone} \cup Settings], wanted' \in [Channel -> {None} \cup Settings],
         \A c \in Voice!Live' : wanted'[c] \in Settings
  PROVE  FollowTypeOK'
<1>1. call' = [r \in Request |-> call'[r]] /\ \A r \in Request : AskedOK(call[r])'
  BY DEF FollowTypeOK, AskedOK
<1> QED
  BY <1>1 DEF FollowTypeOK

LEMMA FollowsCarryOut ==
  ASSUME FollowOK, Voice!CarryOut
  PROVE  FollowOK'
<1> DEFINE a == Head(pending)
<1>1. /\ pending # <<>> /\ pending' = Tail(pending) /\ UNCHANGED <<preset, call, wanted, mixed>>
      /\ live' = IF a.c \notin Voice!Live THEN live ELSE [live EXCEPT ![a.c][a.s] = a.v]
  BY DEF Voice!CarryOut
<1>2. /\ a \in Act /\ Tail(pending) \in Seq(Act)
      /\ \A d : Within(d, pending) <=> d = a \/ Within(d, Tail(pending))
  BY <1>1, WithinTail DEF FollowOK, FollowTypeOK
<1> HIDE DEF a
<1>3. a.c \in Channel /\ a.s \in Voice!Setting /\ a.v \in Voice!Value
  BY <1>2 DEF Act
<1>4. /\ live \in [Channel -> {None, Gone} \cup Settings] /\ mixed \in BOOLEAN
      /\ wanted \in [Channel -> {None} \cup Settings] /\ \A c \in Voice!Live : wanted[c] \in Settings
  BY DEF FollowOK, FollowTypeOK
<1>5. None \notin Settings /\ Gone \notin Settings
  BY VoiceAssumption DEF Settings, Voice!Setting, Voice!Value
<1>6. /\ live' \in [Channel -> {None, Gone} \cup Settings] /\ Voice!Live' = Voice!Live
      /\ \A c \in Channel, s \in Voice!Setting : ~(c = a.c /\ s = a.s) => live'[c][s] = live[c][s]
      /\ a.c \in Voice!Live => live'[a.c][a.s] = a.v
      /\ \A c \in Channel : live[c] # None => live'[c] # None
  <2>1. CASE a.c \notin Voice!Live
    BY <1>1, <1>4, <2>1 DEF Voice!Live
  <2>2. CASE a.c \in Voice!Live
    <3>1. live[a.c] \in Settings
      BY <1>3, <1>4, <2>2 DEF Voice!Live
    <3>2. /\ live' = [live EXCEPT ![a.c][a.s] = a.v] /\ live'[a.c] \in Settings /\ live'[a.c][a.s] = a.v
          /\ \A c \in Channel : c # a.c => live'[c] = live[c]
          /\ \A s \in Voice!Setting : s # a.s => live'[a.c][s] = live[a.c][s]
      BY <1>1, <1>3, <1>4, <2>2, <3>1 DEF Settings
    <3>3. live' \in [Channel -> {None, Gone} \cup Settings]
      BY <1>4, <3>2
    <3>4. Voice!Live' = Voice!Live
      BY <1>3, <1>5, <2>2, <3>2 DEF Voice!Live
    <3> QED
      BY <1>3, <1>5, <2>2, <3>2, <3>3, <3>4
  <2> QED
    BY <2>1, <2>2
<1>7. FollowTypeOK'
  BY <1>1, <1>2, <1>4, <1>6, BotTypes DEF FollowOK
<1>8. ASSUME ~mixed'  PROVE Following'
  <2>1. /\ AloneOK /\ QueuedOK /\ \A r \in Request : OwnedOK(r)
        /\ \A c \in Voice!Live, s \in Voice!Setting : SettingOK(c, s)
    BY <1>1, <1>8 DEF FollowOK, Following
  <2>2. \A r \in Request : call[r].at \in {"idle", "queue"} /\ call'[r] = call[r]
    BY <1>1, <2>1 DEF AloneOK
  <2>3. \A d : Coming(d) <=> d = a \/ Coming(d)'
    <3>1. ASSUME NEW d  PROVE Coming(d) <=> d = a \/ Coming(d)'
      <4>1. Coming(d)' <=> Within(d, Tail(pending)) \/ \E r \in Request : Within(d, call[r].todo)
        BY <1>1 DEF Coming, Within
      <4> QED
        BY <1>2, <4>1 DEF Coming
    <3> QED
      BY <3>1
  <2>4. AloneOK'
    BY <2>1, <2>2 DEF AloneOK
  <2>5. \A r \in Request : OwnedOK(r)'
    BY <2>2 DEF OwnedOK, Owned
  <2>6. QueuedOK'
    <3>1. ASSUME NEW d \in Act, Coming(d)'
          PROVE  live'[d.c] # None /\ (d.c \in Voice!Live => d.v = wanted[d.c][d.s])
      BY <1>6, <2>1, <2>3, <3>1 DEF QueuedOK, Act
    <3> QED
      BY <1>1, <1>6, <3>1 DEF QueuedOK
  <2>7. ASSUME NEW c \in Voice!Live, NEW s \in Voice!Setting  PROVE SettingOK(c, s)'
    <3>0. c \in Channel
      BY DEF Voice!Live
    <3>1. CASE c = a.c /\ s = a.s
      <4>1. a.v = wanted[c][s]
        BY <1>2, <2>1, <2>3, <3>1 DEF QueuedOK
      <4> QED
        BY <1>1, <1>6, <3>1, <4>1 DEF SettingOK
    <3>2. CASE ~(c = a.c /\ s = a.s)
      <4>1. live'[c][s] = live[c][s] /\ wanted'[c][s] = wanted[c][s]
        BY <1>1, <1>6, <3>0, <3>2
      <4>2. live[c][s] = wanted[c][s] \/ \E d \in Act : Coming(d) /\ d.c = c /\ d.s = s
        BY <2>1, <2>2 DEF SettingOK, Sends, Owned
      <4>3. \A d \in Act : Coming(d) /\ d.c = c /\ d.s = s => Coming(d)'
        BY <2>3, <3>2
      <4> QED
        BY <4>1, <4>2, <4>3 DEF SettingOK
    <3> QED
      BY <3>1, <3>2
  <2> QED
    BY <1>6, <2>4, <2>5, <2>6, <2>7 DEF Following
<1> QED
  BY <1>7, <1>8 DEF FollowOK

\* A channel opens with the saved default, or the plain one.
LEMMA FollowsOpen ==
  ASSUME FollowOK, NEW o \in Channel, Voice!OpenChannel(o)
  PROVE  FollowOK'
<1> DEFINE new == IF preset = None THEN Voice!Defaults ELSE preset
<1>1. /\ live[o] = None /\ live' = [live EXCEPT ![o] = new] /\ wanted' = [wanted EXCEPT ![o] = live'[o]]
      /\ UNCHANGED <<preset, pending, call, mixed>>
  BY DEF Voice!OpenChannel, Voice!Unasked
<1>2. /\ live \in [Channel -> {None, Gone} \cup Settings] /\ mixed \in BOOLEAN /\ pending \in Seq(Act)
      /\ wanted \in [Channel -> {None} \cup Settings] /\ \A c \in Voice!Live : wanted[c] \in Settings
      /\ preset \in {None} \cup Settings
  BY DEF FollowOK, FollowTypeOK
<1>3. new \in Settings
  BY <1>2 DEF Settings, Voice!Defaults, Voice!Value
<1> HIDE DEF new
<1>4. None \notin Settings /\ Gone \notin Settings
  BY VoiceAssumption DEF Settings, Voice!Setting, Voice!Value
<1>5. /\ live' \in [Channel -> {None, Gone} \cup Settings] /\ wanted' \in [Channel -> {None} \cup Settings]
      /\ live'[o] = new /\ wanted'[o] = new
      /\ \A c \in Channel : c # o => live'[c] = live[c] /\ wanted'[c] = wanted[c]
  BY <1>1, <1>2, <1>3
<1>6. Voice!Live' = Voice!Live \cup {o} /\ o \notin Voice!Live /\ Voice!Live \subseteq Channel
  BY <1>1, <1>3, <1>4, <1>5 DEF Voice!Live
<1>7. FollowTypeOK'
  <2>1. \A c \in Voice!Live' : wanted'[c] \in Settings
    BY <1>2, <1>3, <1>5, <1>6
  <2> QED
    BY <1>1, <1>2, <1>5, <2>1, BotTypes DEF FollowOK
<1>8. ASSUME ~mixed'  PROVE Following'
  <2>1. /\ AloneOK /\ QueuedOK /\ \A r \in Request : OwnedOK(r)
        /\ \A c \in Voice!Live, s \in Voice!Setting : SettingOK(c, s)
    BY <1>1, <1>8 DEF FollowOK, Following
  <2>2. AloneOK' /\ \A d : Coming(d)' <=> Coming(d)
    BY <1>1, <2>1 DEF AloneOK, Coming, Within
  <2>3. QueuedOK'
    <3>1. ASSUME NEW d \in Act, Coming(d)
          PROVE  live'[d.c] # None /\ (d.c \in Voice!Live' => d.v = wanted'[d.c][d.s])
      <4>1. d.c # o /\ d.c \in Channel
        BY <1>1, <2>1, <3>1 DEF QueuedOK, Act
      <4> QED
        BY <1>5, <1>6, <2>1, <3>1, <4>1 DEF QueuedOK
    <3> QED
      BY <2>2, <3>1 DEF QueuedOK
  <2>4. ASSUME NEW r \in Request  PROVE OwnedOK(r)'
    <3>1. CASE Owned(r)
      <4> DEFINE b == call[r].body
      <4>1. preset # None /\ new = preset
        BY <2>1, <3>1 DEF OwnedOK, new
      <4>2. \A s \in DOMAIN b : Voice!Sent(b, s) => \A c \in Voice!Live' : wanted'[c][s] = b[s]
        BY <1>5, <1>6, <2>1, <3>1, <4>1 DEF OwnedOK
      <4> QED
        BY <1>1, <2>1, <3>1, <4>1, <4>2 DEF OwnedOK, Owned, Voice!Sent
    <3>2. CASE ~Owned(r)
      BY <1>1, <3>2 DEF OwnedOK, Owned
    <3> QED
      BY <3>1, <3>2
  <2>5. ASSUME NEW c \in Voice!Live', NEW s \in Voice!Setting  PROVE SettingOK(c, s)'
    <3>1. CASE c = o
      BY <1>5, <3>1 DEF SettingOK
    <3>2. CASE c # o
      <4>1. live'[c] = live[c] /\ wanted'[c] = wanted[c] /\ SettingOK(c, s)
        BY <1>5, <1>6, <2>1, <3>2
      <4>2. \A r \in Request : Sends(r, s) => Sends(r, s)'
        BY <1>1 DEF Sends, Owned, Voice!Sent
      <4> QED
        BY <2>2, <4>1, <4>2 DEF SettingOK
    <3> QED
      BY <3>1, <3>2
  <2> QED
    BY <2>2, <2>3, <2>4, <2>5 DEF Following
<1> QED
  BY <1>7, <1>8 DEF FollowOK

LEMMA FollowsClose ==
  ASSUME FollowOK, NEW o \in Channel, Voice!CloseChannel(o)
  PROVE  FollowOK'
<1>1. /\ o \in Voice!Live /\ live' = [live EXCEPT ![o] = Gone] /\ wanted' = [wanted EXCEPT ![o] = None]
      /\ UNCHANGED <<preset, pending, call, mixed>>
  BY DEF Voice!CloseChannel, Voice!Unasked
<1>2. /\ live \in [Channel -> {None, Gone} \cup Settings] /\ mixed \in BOOLEAN /\ pending \in Seq(Act)
      /\ wanted \in [Channel -> {None} \cup Settings] /\ \A c \in Voice!Live : wanted[c] \in Settings
  BY DEF FollowOK, FollowTypeOK
<1>3. None # Gone
  BY VoiceAssumption
<1>4. /\ live' \in [Channel -> {None, Gone} \cup Settings] /\ wanted' \in [Channel -> {None} \cup Settings]
      /\ live'[o] = Gone
      /\ \A c \in Channel : c # o => live'[c] = live[c] /\ wanted'[c] = wanted[c]
  BY <1>1, <1>2
<1>5. Voice!Live' = Voice!Live \ {o} /\ Voice!Live \subseteq Channel
  BY <1>1, <1>4 DEF Voice!Live
<1>6. FollowTypeOK'
  <2>1. \A c \in Voice!Live' : wanted'[c] \in Settings
    BY <1>2, <1>4, <1>5
  <2> QED
    BY <1>1, <1>2, <1>4, <2>1, BotTypes DEF FollowOK
<1>7. ASSUME ~mixed'  PROVE Following'
  <2>1. /\ AloneOK /\ QueuedOK /\ \A r \in Request : OwnedOK(r)
        /\ \A c \in Voice!Live, s \in Voice!Setting : SettingOK(c, s)
    BY <1>1, <1>7 DEF FollowOK, Following
  <2>2. AloneOK' /\ \A d : Coming(d)' <=> Coming(d)
    BY <1>1, <2>1 DEF AloneOK, Coming, Within
  <2>3. \A c \in Voice!Live' : c \in Voice!Live /\ live'[c] = live[c] /\ wanted'[c] = wanted[c]
    BY <1>4, <1>5
  <2>4. QueuedOK'
    <3>1. ASSUME NEW d \in Act, Coming(d)
          PROVE  live'[d.c] # None /\ (d.c \in Voice!Live' => d.v = wanted'[d.c][d.s])
      BY <1>3, <1>4, <2>1, <2>3, <3>1 DEF QueuedOK, Act
    <3> QED
      BY <2>2, <3>1 DEF QueuedOK
  <2>5. \A r \in Request : OwnedOK(r)'
    BY <1>1, <2>1, <2>3 DEF OwnedOK, Owned, Voice!Sent
  <2>6. ASSUME NEW c \in Voice!Live', NEW s \in Voice!Setting  PROVE SettingOK(c, s)'
    <3>1. \A r \in Request : Sends(r, s) => Sends(r, s)'
      BY <1>1 DEF Sends, Owned, Voice!Sent
    <3> QED
      BY <2>1, <2>2, <2>3, <3>1 DEF SettingOK
  <2> QED
    BY <2>2, <2>4, <2>5, <2>6 DEF Following
<1> QED
  BY <1>6, <1>7 DEF FollowOK

\* The owner sets one setting of a channel, while nothing else is under way.
LEMMA FollowsOwner ==
  ASSUME FollowOK, NEW o \in Channel, NEW p \in Voice!Setting, NEW v \in Voice!Value,
         Voice!OwnerSets(o, p, v)
  PROVE  FollowOK'
<1>1. /\ o \in Voice!Live /\ live' = [live EXCEPT ![o][p] = v] /\ wanted' = [wanted EXCEPT ![o][p] = v]
      /\ UNCHANGED <<preset, pending, call>> /\ mixed' = (mixed \/ Voice!Busy)
  BY DEF Voice!OwnerSets, Voice!Unasked
<1>2. /\ live \in [Channel -> {None, Gone} \cup Settings] /\ mixed \in BOOLEAN /\ pending \in Seq(Act)
      /\ wanted \in [Channel -> {None} \cup Settings] /\ \A c \in Voice!Live : wanted[c] \in Settings
  BY DEF FollowOK, FollowTypeOK
<1>3. None \notin Settings /\ Gone \notin Settings
  BY VoiceAssumption DEF Settings, Voice!Setting, Voice!Value
<1>4. live[o] \in Settings /\ wanted[o] \in Settings
  BY <1>1, <1>2 DEF Voice!Live
<1>5. /\ live'[o] \in Settings /\ wanted'[o] \in Settings /\ live'[o][p] = v /\ wanted'[o][p] = v
      /\ \A c \in Channel : c # o => live'[c] = live[c] /\ wanted'[c] = wanted[c]
      /\ \A s \in Voice!Setting : s # p => live'[o][s] = live[o][s] /\ wanted'[o][s] = wanted[o][s]
  BY <1>1, <1>2, <1>4 DEF Settings
<1>6. live' \in [Channel -> {None, Gone} \cup Settings] /\ wanted' \in [Channel -> {None} \cup Settings]
  BY <1>1, <1>2, <1>5
<1>7. Voice!Live' = Voice!Live /\ Voice!Live \subseteq Channel
  BY <1>1, <1>3, <1>5 DEF Voice!Live
<1>8. FollowTypeOK'
  <2>1. \A c \in Voice!Live' : wanted'[c] \in Settings
    BY <1>2, <1>5, <1>7
  <2> QED
    BY <1>1, <1>2, <1>6, <2>1, BotTypes DEF FollowOK
<1>9. ASSUME ~mixed'  PROVE Following'
  <2>1. ~mixed /\ pending = <<>> /\ \A r \in Request : call[r].at = "idle" /\ call[r].todo = <<>>
    BY <1>1, <1>2, <1>9 DEF Voice!Busy, FollowOK, FollowTypeOK, AskedOK
  <2>2. \A d : ~Coming(d) /\ ~Coming(d)'
    BY <1>1, <2>1, WithinSteps DEF Coming
  <2>3. AloneOK' /\ \A r \in Request : OwnedOK(r)'
    BY <1>1, <2>1 DEF AloneOK, OwnedOK, Owned
  <2>4. QueuedOK'
    BY <2>2 DEF QueuedOK
  <2>5. \A c \in Voice!Live, s \in Voice!Setting : live[c][s] = wanted[c][s]
    BY <2>1, <2>2 DEF FollowOK, Following, SettingOK, Sends, Owned
  <2>6. ASSUME NEW c \in Voice!Live, NEW s \in Voice!Setting  PROVE live'[c][s] = wanted'[c][s]
    BY <1>5, <1>7, <2>5
  <2> QED
    BY <1>7, <2>3, <2>4, <2>6 DEF Following, SettingOK
<1> QED
  BY <1>8, <1>9 DEF FollowOK

LEMMA FollowsInit ==
  ASSUME Voice!Init
  PROVE  FollowOK
<1>1. Voice!Live = {} /\ mixed = FALSE /\ \A r \in Request : call[r] = Voice!Idle
  BY DEF Voice!Init, Voice!Live
<1>2. FollowTypeOK
  <2>1. live \in [Channel -> {None, Gone} \cup Settings] /\ wanted \in [Channel -> {None} \cup Settings]
    BY DEF Voice!Init
  <2>2. pending \in Seq(Act) /\ preset \in {None} \cup Settings /\ call = [r \in Request |-> call[r]]
    BY DEF Voice!Init, Settings
  <2> QED
    BY <1>1, <2>1, <2>2, IdleAsked DEF FollowTypeOK
<1>3. pending = <<>> /\ \A a : ~Coming(a)
  BY <1>1, IdleAsked, WithinSteps DEF Voice!Init, Coming
<1>4. AloneOK /\ QueuedOK /\ \A r \in Request : OwnedOK(r)
  BY <1>1, <1>3, IdleAsked DEF AloneOK, QueuedOK, OwnedOK, Owned
<1> QED
  BY <1>1, <1>2, <1>4 DEF FollowOK, Following

LEMMA FollowsStep ==
  ASSUME FollowOK, [Voice!Next]_(Voice!vars)
  PROVE  FollowOK'
<1>1. CASE UNCHANGED Voice!vars
  BY <1>1 DEF Voice!vars, Voice!tables, FollowOK, FollowTypeOK, Following, AskedOK, AloneOK, QueuedOK,
              OwnedOK, SettingOK, Sends, Owned, Coming, Within, Voice!Live, Voice!Sent
<1>2. ASSUME NEW r \in Request,
             \/ \E b \in Voice!Bodies, creating \in BOOLEAN, apply \in BOOLEAN :
                  Voice!Save(r, b, creating, apply)
             \/ Voice!ReadPreset(r) \/ Voice!WritePreset(r) \/ Voice!ReadLive(r)
             \/ Voice!Enqueue(r) \/ Voice!Fail(r)
             \/ Voice!Clear(r) \/ Voice!ReadCleared(r) \/ Voice!RemovePreset(r)
             \/ \E c \in Channel, s \in Voice!Setting, v \in Voice!Value : Voice!Manage(r, c, s, v)
      PROVE  FollowOK'
  BY <1>2, FollowsSave, FollowsReading, FollowsWrite, FollowsReadLive, FollowsEnqueue, FollowsFail,
     FollowsClear, FollowsRemove, FollowsManage
<1>3. ASSUME NEW c \in Channel,
             \/ Voice!OpenChannel(c) \/ Voice!CloseChannel(c)
             \/ \E s \in Voice!Setting, v \in Voice!Value : Voice!OwnerSets(c, s, v)
      PROVE  FollowOK'
  BY <1>3, FollowsOpen, FollowsClose, FollowsOwner
<1> QED
  BY <1>1, <1>2, <1>3, FollowsCarryOut DEF Voice!Next

\* When all that was queued is carried out and nothing overlapped or failed, every live channel
\* has what was last asked of each of its settings (POST and PATCH of /tempvoice/presets with
\* liveChannelsForOwner, POST /tempvoice/channels/:channelId): for any number of settings,
\* channels and requests.
THEOREM LiveChannelsFollow == Voice!Spec => []LiveFollows
<1>1. FollowOK => LiveFollows
  <2> SUFFICES ASSUME FollowOK, ~Voice!Busy, ~mixed, NEW c \in Voice!Live  PROVE live[c] = wanted[c]
    BY DEF LiveFollows, Voice!LiveFollows
  <2>1. pending = <<>> /\ \A r \in Request : call[r].at = "idle" /\ call[r].todo = <<>>
    BY DEF Voice!Busy, FollowOK, FollowTypeOK, AskedOK
  <2>2. \A a : ~Coming(a)
    BY <2>1, WithinSteps DEF Coming
  <2>3. \A s \in Voice!Setting : live[c][s] = wanted[c][s]
    BY <2>1, <2>2 DEF FollowOK, Following, SettingOK, Sends, Owned
  <2>4. live[c] \in Settings /\ wanted[c] \in Settings
    BY DEF FollowOK, FollowTypeOK, Voice!Live
  <2> QED
    BY <2>3, <2>4 DEF Settings
<1> QED
  BY <1>1, FollowsInit, FollowsStep, PTL DEF Voice!Spec

-----------------------------------------------------------------------------
(***************************************************************************)
(* The detail of a match (MatchDetail).                                    *)
(***************************************************************************)

\* Squads are numbered from 1.
RoundBounds == SquadNo \subseteq Nat \ {0}

Event ==
  [kind : {"death", "revive"}, by : Player \cup {Nobody}, byTeam : 0..2, bySquad : SquadNo \cup {0},
   of : Player \cup {Nobody}, ofTeam : 0..2, ofSquad : SquadNo \cup {0}, teamkill : BOOLEAN]
Creation == [by : Player, team : Match!Team, no : SquadNo, name : Name]
Tally == [kills : Nat, deaths : Nat, revives : Nat, teamkills : Nat]

RoundTypeOK ==
  /\ over \in BOOLEAN /\ team \in [Player -> Match!Team] /\ squad \in [Player -> SquadNo \cup {0}]
  /\ combat \in Seq(Event) /\ creations \in Seq(Creation)
  /\ tally \in [Player -> Tally]

\* The snapshot of the end says what was so at the end, or nothing.
BoardOK ==
  /\ DOMAIN board \subseteq Player
  /\ \A p \in DOMAIN board :
       LET row == board[p] IN
       /\ row.team = team[p] /\ row.no \in {0, squad[p]}
       /\ row.name # "" => row.no # 0 /\ row.name = named[team[p]][squad[p]]

\* What was counted is what the rows say.
CountOK == \A p \in Player : tally[p] = Match!Score(p, 0)

\* The inductive invariant.
RoundOK == RoundTypeOK /\ CountOK /\ (over => BoardOK)

-----------------------------------------------------------------------------
\* Counting the rows of a sequence that satisfy a condition, T being those that do.
LEMMA CountMore ==
  ASSUME NEW n \in Nat, NEW T, T \subseteq 1..n, NEW U, U = T \cup {n + 1} \/ U = T
  PROVE  /\ Cardinality(T) \in Nat
         /\ U = T \cup {n + 1} => Cardinality(U) = Cardinality(T) + 1
         /\ U = T => Cardinality(U) = Cardinality(T)
<1>1. IsFiniteSet(T)
  <2>1. IsFiniteSet(1..n)
    BY FS_Interval
  <2> QED
    BY <2>1, FS_Subset
<1>2. n + 1 \notin T
  OBVIOUS
<1> QED
  BY <1>1, <1>2, FS_AddElement, FS_CardinalityType


Kills(q, p) == {i \in DOMAIN q : q[i].kind = "death" /\ q[i].by = p}
Teamkills(q, p) == {i \in DOMAIN q : q[i].kind = "death" /\ q[i].by = p /\ q[i].teamkill}
Losses(q, p) == {i \in DOMAIN q : q[i].kind = "death" /\ q[i].of = p}
Revivals(q, p) == {i \in DOMAIN q : q[i].kind = "revive" /\ q[i].by = p}

CountsOf(q, p) ==
  [kills |-> Cardinality(Kills(q, p)), teamkills |-> Cardinality(Teamkills(q, p)),
   deaths |-> Cardinality(Losses(q, p)), revives |-> Cardinality(Revivals(q, p))]

\* What the assembler counts, whatever team it counts for.
LEMMA ScoreIs ==
  ASSUME NEW p, NEW t
  PROVE  Match!Score(p, t) = CountsOf(combat, p) /\ Match!Score(p, t)' = CountsOf(combat', p)
<1>1. ASSUME NEW q
      PROVE  /\ {i \in {j \in DOMAIN q : q[j].kind = "death"} : q[i].by = p} = Kills(q, p)
             /\ {i \in {j \in DOMAIN q : q[j].kind = "death"} : q[i].by = p /\ q[i].teamkill} = Teamkills(q, p)
             /\ {i \in {j \in DOMAIN q : q[j].kind = "death"} : q[i].of = p} = Losses(q, p)
             /\ {i \in {j \in DOMAIN q : q[j].kind = "revive"} : q[i].by = p} = Revivals(q, p)
  BY DEF Kills, Teamkills, Losses, Revivals
<1>2. \A S : Match!Cardinality(S) = Cardinality(S)
  BY DEF Match!Cardinality, Cardinality
<1>3. Match!Score(p, t) = CountsOf(combat, p)
  BY <1>1, <1>2 DEF Match!Score, CountsOf
<1>4. Match!Score(p, t)' = CountsOf(combat', p)
  BY <1>1, <1>2 DEF Match!Score, CountsOf
<1> QED
  BY <1>3, <1>4

LEMMA CountAppend ==
  ASSUME NEW q \in Seq(Event), NEW e \in Event, NEW p
  PROVE  LET r == Append(q, e) IN
         /\ Cardinality(Kills(q, p)) \in Nat /\ Cardinality(Teamkills(q, p)) \in Nat
         /\ Cardinality(Losses(q, p)) \in Nat /\ Cardinality(Revivals(q, p)) \in Nat
         /\ Cardinality(Kills(r, p)) =
              Cardinality(Kills(q, p)) + (IF e.kind = "death" /\ e.by = p THEN 1 ELSE 0)
         /\ Cardinality(Teamkills(r, p)) =
              Cardinality(Teamkills(q, p)) + (IF e.kind = "death" /\ e.by = p /\ e.teamkill THEN 1 ELSE 0)
         /\ Cardinality(Losses(r, p)) =
              Cardinality(Losses(q, p)) + (IF e.kind = "death" /\ e.of = p THEN 1 ELSE 0)
         /\ Cardinality(Revivals(r, p)) =
              Cardinality(Revivals(q, p)) + (IF e.kind = "revive" /\ e.by = p THEN 1 ELSE 0)
<1> DEFINE n == Len(q)
           r == Append(q, e)
<1>1. /\ n \in Nat /\ DOMAIN q = 1..n /\ DOMAIN r = 1..(n + 1) /\ r[n + 1] = e
      /\ \A i \in 1..n : r[i] = q[i]
  OBVIOUS
<1> HIDE DEF n, r
<1>2. /\ Kills(q, p) \subseteq 1..n
      /\ Kills(r, p) = IF e.kind = "death" /\ e.by = p THEN Kills(q, p) \cup {n + 1} ELSE Kills(q, p)
  BY <1>1 DEF Kills
<1>3. /\ Teamkills(q, p) \subseteq 1..n
      /\ Teamkills(r, p) = IF e.kind = "death" /\ e.by = p /\ e.teamkill
                             THEN Teamkills(q, p) \cup {n + 1} ELSE Teamkills(q, p)
  BY <1>1 DEF Teamkills
<1>4. /\ Losses(q, p) \subseteq 1..n
      /\ Losses(r, p) = IF e.kind = "death" /\ e.of = p THEN Losses(q, p) \cup {n + 1} ELSE Losses(q, p)
  BY <1>1 DEF Losses
<1>5. /\ Revivals(q, p) \subseteq 1..n
      /\ Revivals(r, p) = IF e.kind = "revive" /\ e.by = p THEN Revivals(q, p) \cup {n + 1} ELSE Revivals(q, p)
  BY <1>1 DEF Revivals
<1>6. ASSUME NEW T, T \subseteq 1..n, NEW c \in BOOLEAN
      PROVE  /\ Cardinality(T) \in Nat
             /\ Cardinality(IF c THEN T \cup {n + 1} ELSE T) = Cardinality(T) + (IF c THEN 1 ELSE 0)
  <2> DEFINE U == T \cup {n + 1}
  <2>1. Cardinality(T) \in Nat /\ Cardinality(U) = Cardinality(T) + 1
    <3>1. n \in Nat
      BY <1>1
    <3> HIDE DEF Event
    <3> QED
      BY <1>6, <3>1, CountMore
  <2> HIDE DEF U
  <2>2. CASE c
    BY <2>1, <2>2 DEF U
  <2>3. CASE ~c
    BY <2>1, <2>3
  <2> QED
    BY <2>2, <2>3
<1> HIDE DEF Event
<1> QED
  BY <1>2, <1>3, <1>4, <1>5, <1>6 DEF r

-----------------------------------------------------------------------------
\* Every action but a death, a revive and the end leaves the counts and the snapshot alone.
LEMMA RoundInit ==
  ASSUME RoundBounds, Match!Init
  PROVE  RoundOK
<1>1. Match!Team = {1, 2} /\ over = FALSE /\ combat = <<>> /\ creations = <<>>
  BY DEF Match!Init, Match!Team
<1>2. RoundTypeOK
  <2>1. tally \in [Player -> Tally]
    BY DEF Match!Init, Tally
  <2>2. team \in [Player -> Match!Team] /\ squad \in [Player -> SquadNo \cup {0}]
    BY DEF Match!Init
  <2>3. combat \in Seq(Event) /\ creations \in Seq(Creation)
    <3> HIDE DEF Event, Creation
    <3> QED
      BY <1>1
  <2> HIDE DEF Event, Creation, Tally
  <2> QED
    BY <1>1, <2>1, <2>2, <2>3 DEF RoundTypeOK
<1>3. CountOK
  <2>1. \A p : Kills(combat, p) = {} /\ Teamkills(combat, p) = {} /\ Losses(combat, p) = {}
               /\ Revivals(combat, p) = {}
    BY <1>1 DEF Kills, Teamkills, Losses, Revivals
  <2>2. Cardinality({}) = 0
    BY FS_EmptySet
  <2>3. \A p \in Player : tally[p] = [kills |-> 0, teamkills |-> 0, deaths |-> 0, revives |-> 0]
    BY DEF Match!Init
  <2>4. \A p \in Player : Match!Score(p, 0) = [kills |-> 0, teamkills |-> 0, deaths |-> 0, revives |-> 0]
    BY <2>1, <2>2, ScoreIs DEF CountsOf
  <2> QED
    BY <2>3, <2>4 DEF CountOK
<1> QED
  BY <1>1, <1>2, <1>3 DEF RoundOK

\* Squads come and go, players change sides: nothing is counted.
Moving ==
  \/ \E p \in Player, n \in SquadNo : Match!Join(p, n) \/ \E name \in Name : Match!Create(p, n, name)
  \/ \E p \in Player : Match!Leave(p) \/ Match!ChangeSides(p)

LEMMA LeftKeeps ==
  ASSUME NEW p \in Player, squad \in [Player -> SquadNo \cup {0}], Match!Left(p)
  PROVE  squad' \in [Player -> SquadNo \cup {0}]
BY DEF Match!Left

LEMMA MovingTypes ==
  ASSUME RoundTypeOK, Moving
  PROVE  RoundTypeOK' /\ ~over /\ ~over' /\ UNCHANGED <<combat, tally>>
<1>1. /\ over \in BOOLEAN /\ team \in [Player -> Match!Team] /\ squad \in [Player -> SquadNo \cup {0}]
      /\ combat \in Seq(Event) /\ creations \in Seq(Creation) /\ tally \in [Player -> Tally]
  BY DEF RoundTypeOK
<1> HIDE DEF Event, Tally
<1>2. CASE \E p \in Player, n \in SquadNo : Match!Join(p, n)
  <2>1. PICK p \in Player, n \in SquadNo : Match!Join(p, n)
    BY <1>2
  <2>2. /\ ~over /\ UNCHANGED <<over, team, named, combat, creations, spawned, board, plugin, tally>>
        /\ squad' = [squad EXCEPT ![p] = n]
    BY <2>1 DEF Match!Join, Match!Playing
  <2> QED
    BY <1>1, <2>2 DEF RoundTypeOK
<1>3. CASE \E p \in Player, n \in SquadNo, name \in Name : Match!Create(p, n, name)
  <2>1. PICK p \in Player, n \in SquadNo, name \in Name : Match!Create(p, n, name)
    BY <1>3
  <2> DEFINE made == [by |-> p, team |-> team[p], no |-> n, name |-> name]
  <2>2. /\ ~over /\ UNCHANGED <<over, team, combat, spawned, board, plugin, tally>>
        /\ squad' = [squad EXCEPT ![p] = n] /\ creations' = Append(creations, made)
    BY <2>1 DEF Match!Create, Match!Playing
  <2>3. made \in Creation
    BY <1>1 DEF Creation
  <2> HIDE DEF made, Creation
  <2>4. creations' \in Seq(Creation)
    BY <1>1, <2>2, <2>3
  <2> QED
    BY <1>1, <2>2, <2>4 DEF RoundTypeOK
<1>4. CASE \E p \in Player : Match!Leave(p)
  <2>1. PICK p \in Player : Match!Leave(p)
    BY <1>4
  <2>2. /\ ~over /\ UNCHANGED <<over, team, combat, creations, spawned, board, plugin, tally>>
        /\ Match!Left(p)
    BY <2>1 DEF Match!Leave, Match!Playing
  <2> QED
    BY <1>1, <2>2, LeftKeeps DEF RoundTypeOK
<1>5. CASE \E p \in Player : Match!ChangeSides(p)
  <2>1. PICK p \in Player : Match!ChangeSides(p)
    BY <1>5
  <2>2. /\ ~over /\ UNCHANGED <<over, combat, creations, spawned, board, plugin, tally>>
        /\ Match!Left(p) \/ UNCHANGED squad
        /\ team' = [team EXCEPT ![p] = Match!Other(@)]
    BY <2>1 DEF Match!ChangeSides, Match!Playing
  <2>3. team' \in [Player -> Match!Team]
    <3>1. \A t \in Match!Team : Match!Other(t) \in Match!Team
      BY DEF Match!Team, Match!Other
    <3> QED
      BY <1>1, <2>2, <3>1
  <2> QED
    BY <1>1, <2>2, <2>3, LeftKeeps DEF RoundTypeOK
<1> QED
  BY <1>2, <1>3, <1>4, <1>5 DEF Moving

\* A row of a death or a revive, and what it adds to the counts of a player.
LEMMA Counted ==
  ASSUME RoundTypeOK, CountOK, NEW e \in Event, combat' = Append(combat, e), ~over, UNCHANGED over,
         tally' \in [Player -> Tally],
         \A p \in Player :
           /\ tally'[p].kills = tally[p].kills + (IF e.kind = "death" /\ e.by = p THEN 1 ELSE 0)
           /\ tally'[p].teamkills =
                tally[p].teamkills + (IF e.kind = "death" /\ e.by = p /\ e.teamkill THEN 1 ELSE 0)
           /\ tally'[p].deaths = tally[p].deaths + (IF e.kind = "death" /\ e.of = p THEN 1 ELSE 0)
           /\ tally'[p].revives = tally[p].revives + (IF e.kind = "revive" /\ e.by = p THEN 1 ELSE 0)
  PROVE  CountOK' /\ combat' \in Seq(Event)
<1>1. combat \in Seq(Event)
  BY DEF RoundTypeOK
<1>2. combat' \in Seq(Event)
  <2> HIDE DEF Event
  <2> QED
    BY <1>1
<1>3. ASSUME NEW p \in Player  PROVE tally'[p] = Match!Score(p, 0)'
  <2>1. tally[p] = [kills |-> Cardinality(Kills(combat, p)),
                    teamkills |-> Cardinality(Teamkills(combat, p)),
                    deaths |-> Cardinality(Losses(combat, p)),
                    revives |-> Cardinality(Revivals(combat, p))]
    BY ScoreIs DEF CountOK, CountsOf
  <2>2. /\ Cardinality(Kills(combat', p)) =
             Cardinality(Kills(combat, p)) + (IF e.kind = "death" /\ e.by = p THEN 1 ELSE 0)
        /\ Cardinality(Teamkills(combat', p)) =
             Cardinality(Teamkills(combat, p)) + (IF e.kind = "death" /\ e.by = p /\ e.teamkill THEN 1 ELSE 0)
        /\ Cardinality(Losses(combat', p)) =
             Cardinality(Losses(combat, p)) + (IF e.kind = "death" /\ e.of = p THEN 1 ELSE 0)
        /\ Cardinality(Revivals(combat', p)) =
             Cardinality(Revivals(combat, p)) + (IF e.kind = "revive" /\ e.by = p THEN 1 ELSE 0)
    BY <1>1, CountAppend
  <2>3. Match!Score(p, 0)' = CountsOf(combat', p)
    BY ScoreIs
  <2>4. tally'[p] = [kills |-> tally'[p].kills, teamkills |-> tally'[p].teamkills,
                     deaths |-> tally'[p].deaths, revives |-> tally'[p].revives]
    BY DEF Tally
  <2> QED
    BY <2>1, <2>2, <2>3, <2>4 DEF CountsOf
<1> QED
  BY <1>2, <1>3 DEF CountOK

LEMMA DeathCounts ==
  ASSUME RoundTypeOK, CountOK, NEW by \in Player \cup {Nobody}, NEW of \in Player, NEW seen \in BOOLEAN,
         Match!Death(by, of, seen)
  PROVE  RoundTypeOK' /\ CountOK' /\ ~over'
<1> DEFINE teamkill == by # Nobody /\ by # of /\ team[by] = team[of]
           e == [kind |-> "death", by |-> by, byTeam |-> Match!TeamOf(by),
                 bySquad |-> Match!SquadSeen(seen, by), of |-> of, ofTeam |-> team[of],
                 ofSquad |-> Match!SquadSeen(seen, of), teamkill |-> teamkill]
<1>1. /\ over \in BOOLEAN /\ team \in [Player -> Match!Team] /\ squad \in [Player -> SquadNo \cup {0}]
      /\ creations \in Seq(Creation) /\ tally \in [Player -> Tally]
  BY DEF RoundTypeOK
<1>2. /\ ~over /\ UNCHANGED <<over, team, squad, creations>> /\ combat' = Append(combat, e)
      /\ tally' = [p \in Player |->
                     [tally[p] EXCEPT !.kills = IF p = by THEN @ + 1 ELSE @,
                                      !.teamkills = IF p = by /\ teamkill THEN @ + 1 ELSE @,
                                      !.deaths = IF p = of THEN @ + 1 ELSE @]]
  BY DEF Match!Death, Match!Playing
<1>3. e \in Event
  <2>1. Match!TeamOf(by) \in 0..2 /\ team[of] \in 0..2
    BY <1>1 DEF Match!TeamOf, Match!Team
  <2>2. Match!SquadSeen(seen, by) \in SquadNo \cup {0} /\ Match!SquadSeen(seen, of) \in SquadNo \cup {0}
    BY <1>1 DEF Match!SquadSeen
  <2>3. teamkill \in BOOLEAN
    OBVIOUS
  <2> HIDE DEF teamkill
  <2> QED
    BY <2>1, <2>2, <2>3 DEF Event
<1>4. e.kind = "death" /\ e.by = by /\ e.of = of /\ e.teamkill = teamkill
  OBVIOUS
<1> HIDE DEF e, teamkill
<1>5. ASSUME NEW p \in Player
      PROVE  /\ tally'[p] \in Tally
             /\ tally'[p].kills = tally[p].kills + (IF e.kind = "death" /\ e.by = p THEN 1 ELSE 0)
             /\ tally'[p].teamkills =
                  tally[p].teamkills + (IF e.kind = "death" /\ e.by = p /\ e.teamkill THEN 1 ELSE 0)
             /\ tally'[p].deaths = tally[p].deaths + (IF e.kind = "death" /\ e.of = p THEN 1 ELSE 0)
             /\ tally'[p].revives = tally[p].revives + (IF e.kind = "revive" /\ e.by = p THEN 1 ELSE 0)
  <2> DEFINE old == tally[p]
             new == tally'[p]
  <2>1. old \in Tally
    BY <1>1
  <2>2. new = [old EXCEPT !.kills = IF p = by THEN @ + 1 ELSE @,
                          !.teamkills = IF p = by /\ teamkill THEN @ + 1 ELSE @,
                          !.deaths = IF p = of THEN @ + 1 ELSE @]
    BY <1>2
  <2> HIDE DEF old, new
  <2>3. /\ new \in Tally
        /\ new.kills = old.kills + (IF by = p THEN 1 ELSE 0)
        /\ new.teamkills = old.teamkills + (IF by = p /\ teamkill THEN 1 ELSE 0)
        /\ new.deaths = old.deaths + (IF of = p THEN 1 ELSE 0) /\ new.revives = old.revives + 0
    <3>1. old.kills \in Nat /\ old.teamkills \in Nat /\ old.deaths \in Nat /\ old.revives \in Nat
          /\ DOMAIN old = {"kills", "deaths", "revives", "teamkills"}
      BY <2>1 DEF Tally
    <3>2. new = [kills |-> IF p = by THEN old.kills + 1 ELSE old.kills,
                 deaths |-> IF p = of THEN old.deaths + 1 ELSE old.deaths,
                 revives |-> old.revives,
                 teamkills |-> IF p = by /\ teamkill THEN old.teamkills + 1 ELSE old.teamkills]
      BY <2>2, <3>1
    <3> QED
      BY <3>1, <3>2 DEF Tally
  <2> QED
    BY <1>4, <2>3 DEF old, new
<1>6. tally' \in [Player -> Tally]
  BY <1>2, <1>5
<1>7. CountOK' /\ combat' \in Seq(Event)
  <2>1. combat' = Append(combat, e) /\ ~over /\ UNCHANGED over
    BY <1>2
  <2> HIDE DEF Event, Tally
  <2>2. \A p \in Player :
           /\ tally'[p].kills = tally[p].kills + (IF e.kind = "death" /\ e.by = p THEN 1 ELSE 0)
           /\ tally'[p].teamkills =
                tally[p].teamkills + (IF e.kind = "death" /\ e.by = p /\ e.teamkill THEN 1 ELSE 0)
           /\ tally'[p].deaths = tally[p].deaths + (IF e.kind = "death" /\ e.of = p THEN 1 ELSE 0)
           /\ tally'[p].revives = tally[p].revives + (IF e.kind = "revive" /\ e.by = p THEN 1 ELSE 0)
    BY <1>5
  <2> QED
    BY <1>3, <1>6, <2>1, <2>2, Counted
<1> QED
  BY <1>1, <1>2, <1>6, <1>7 DEF RoundTypeOK

LEMMA ReviveCounts ==
  ASSUME RoundTypeOK, CountOK, NEW by \in Player, NEW seen \in BOOLEAN, Match!Revive(by, seen)
  PROVE  RoundTypeOK' /\ CountOK' /\ ~over'
<1> DEFINE e == [kind |-> "revive", by |-> by, byTeam |-> team[by], bySquad |-> Match!SquadSeen(seen, by),
                 of |-> Nobody, ofTeam |-> 0, ofSquad |-> 0, teamkill |-> FALSE]
<1>1. /\ over \in BOOLEAN /\ team \in [Player -> Match!Team] /\ squad \in [Player -> SquadNo \cup {0}]
      /\ creations \in Seq(Creation) /\ tally \in [Player -> Tally]
  BY DEF RoundTypeOK
<1>2. /\ ~over /\ UNCHANGED <<over, team, squad, creations>> /\ combat' = Append(combat, e)
      /\ tally' = [tally EXCEPT ![by].revives = @ + 1]
  BY DEF Match!Revive, Match!Playing
<1>3. e \in Event
  <2>1. team[by] \in 0..2
    BY <1>1 DEF Match!Team
  <2>2. Match!SquadSeen(seen, by) \in SquadNo \cup {0}
    BY <1>1 DEF Match!SquadSeen
  <2> QED
    BY <2>1, <2>2 DEF Event
<1>4. e.kind = "revive" /\ e.by = by
  OBVIOUS
<1> HIDE DEF e
<1>5. ASSUME NEW p \in Player
      PROVE  /\ tally'[p] \in Tally
             /\ tally'[p].kills = tally[p].kills + (IF e.kind = "death" /\ e.by = p THEN 1 ELSE 0)
             /\ tally'[p].teamkills =
                  tally[p].teamkills + (IF e.kind = "death" /\ e.by = p /\ e.teamkill THEN 1 ELSE 0)
             /\ tally'[p].deaths = tally[p].deaths + (IF e.kind = "death" /\ e.of = p THEN 1 ELSE 0)
             /\ tally'[p].revives = tally[p].revives + (IF e.kind = "revive" /\ e.by = p THEN 1 ELSE 0)
  <2> DEFINE old == tally[p]
             new == tally'[p]
  <2>1. old \in Tally
    BY <1>1
  <2>2. new = [old EXCEPT !.revives = IF by = p THEN @ + 1 ELSE @]
    <3>1. CASE by = p
      BY <1>1, <1>2, <3>1
    <3>2. CASE by # p
      BY <1>1, <1>2, <3>2 DEF Tally
    <3> QED
      BY <3>1, <3>2
  <2> HIDE DEF old, new
  <2>3. /\ new \in Tally
        /\ new.kills = old.kills + 0 /\ new.teamkills = old.teamkills + 0 /\ new.deaths = old.deaths + 0
        /\ new.revives = old.revives + (IF by = p THEN 1 ELSE 0)
    BY <2>1, <2>2 DEF Tally
  <2> QED
    BY <1>4, <2>3 DEF old, new
<1>6. tally' \in [Player -> Tally]
  <2> HIDE DEF Tally
  <2> QED
    BY <1>1, <1>2, <1>5
<1>7. CountOK' /\ combat' \in Seq(Event)
  BY <1>2, <1>3, <1>5, <1>6, Counted
<1> QED
  BY <1>1, <1>2, <1>6, <1>7 DEF RoundTypeOK

LEMMA EndSnapshots ==
  ASSUME RoundTypeOK, Match!End
  PROVE  BoardOK'
<1>1. /\ UNCHANGED <<team, squad, named>>
      /\ \E connected \in SUBSET Player :
           \E numbered \in SUBSET {p \in connected : squad[p] # 0} : \E listed \in SUBSET numbered :
             board' = IF plugin THEN [p \in connected |-> Match!BoardRow(p, numbered, listed)] ELSE <<>>
  BY DEF Match!End
<1>2. PICK connected \in SUBSET Player :
        \E numbered \in SUBSET {p \in connected : squad[p] # 0} : \E listed \in SUBSET numbered :
          board' = IF plugin THEN [p \in connected |-> Match!BoardRow(p, numbered, listed)] ELSE <<>>
  BY <1>1
<1>3. PICK numbered \in SUBSET {p \in connected : squad[p] # 0} : \E listed \in SUBSET numbered :
          board' = IF plugin THEN [p \in connected |-> Match!BoardRow(p, numbered, listed)] ELSE <<>>
  BY <1>2
<1>4. PICK listed \in SUBSET numbered :
          board' = IF plugin THEN [p \in connected |-> Match!BoardRow(p, numbered, listed)] ELSE <<>>
  BY <1>3
<1>5. CASE ~plugin
  <2>1. DOMAIN board' = {}
    BY <1>4, <1>5
  <2> QED
    BY <2>1 DEF BoardOK
<1>6. CASE plugin
  <2>1. DOMAIN board' = connected /\ \A p \in connected : board'[p] = Match!BoardRow(p, numbered, listed)
    BY <1>4, <1>6
  <2>2. ASSUME NEW p \in connected
        PROVE  /\ board'[p].team = team[p] /\ board'[p].no \in {0, squad[p]}
               /\ board'[p].name # "" => board'[p].no # 0 /\ board'[p].name = named[team[p]][squad[p]]
    <3>1. p \in listed => p \in numbered
      BY <1>4
    <3>2. p \in numbered => squad[p] # 0
      BY <1>3
    <3> DEFINE no == IF p \in numbered THEN squad[p] ELSE 0
               name == IF p \in listed THEN named[team[p]][squad[p]] ELSE ""
               faction == p \in listed
    <3>3. board'[p] = [team |-> team[p], no |-> no, name |-> name, faction |-> faction]
      BY <2>1 DEF Match!BoardRow
    <3>4. no \in {0, squad[p]} /\ (name # "" => no # 0 /\ name = named[team[p]][squad[p]])
      BY <3>1, <3>2
    <3> HIDE DEF no, name, faction
    <3>5. board'[p].team = team[p] /\ board'[p].no = no /\ board'[p].name = name
      BY ONLY <3>3
    <3> QED
      BY <3>4, <3>5
  <2> QED
    BY <1>1, <2>1, <2>2 DEF BoardOK
<1> QED
  BY <1>5, <1>6

LEMMA RoundStep ==
  ASSUME RoundBounds, RoundOK, [Match!Next]_(Match!vars)
  PROVE  RoundOK'
<1>1. CASE Moving
  <2>1. RoundTypeOK' /\ ~over' /\ UNCHANGED <<combat, tally>>
    BY <1>1, MovingTypes DEF RoundOK
  <2>2. CountOK'
    <3>1. \A p : Match!Score(p, 0)' = Match!Score(p, 0)
      BY <2>1, ScoreIs
    <3> QED
      BY <2>1, <3>1 DEF RoundOK, CountOK
  <2> QED
    BY <2>1, <2>2 DEF RoundOK
<1>2. CASE \E by \in Player \cup {Nobody}, of \in Player : \E seen \in BOOLEAN : Match!Death(by, of, seen)
  BY <1>2, DeathCounts DEF RoundOK
<1>3. CASE \E by \in Player : \E seen \in BOOLEAN : Match!Revive(by, seen)
  BY <1>3, ReviveCounts DEF RoundOK
<1>4. CASE Match!End
  <2>1. over' = TRUE /\ UNCHANGED <<team, squad, combat, creations, tally>>
    BY <1>4 DEF Match!End
  <2>2. RoundTypeOK'
    BY <2>1 DEF RoundOK, RoundTypeOK
  <2>3. CountOK'
    <3>1. \A p : Match!Score(p, 0)' = Match!Score(p, 0)
      BY <2>1, ScoreIs
    <3> QED
      BY <2>1, <3>1 DEF RoundOK, CountOK
  <2> QED
    BY <1>4, <2>2, <2>3, EndSnapshots DEF RoundOK
<1>5. CASE UNCHANGED Match!vars
  <2>1. UNCHANGED <<over, team, squad, named, combat, creations, board, tally>>
    BY <1>5 DEF Match!vars, Match!round
  <2>2. \A p : Match!Score(p, 0)' = Match!Score(p, 0)
    BY <2>1, ScoreIs
  <2>3. RoundTypeOK' /\ CountOK' /\ (BoardOK => BoardOK')
    BY <2>1, <2>2 DEF RoundOK, RoundTypeOK, CountOK, BoardOK
  <2> QED
    BY <2>1, <2>3 DEF RoundOK
<1> QED
  BY <1>1, <1>2, <1>3, <1>4, <1>5 DEF Match!Next, Moving

-----------------------------------------------------------------------------
\* From the rows to what is shown.

SquadFields == {"team", "no", "name"}

\* The names found for the squad of p, and the one that is taken.
NamesIn(found, p) ==
  {found[q].name : q \in {r \in DOMAIN found : found[r].team = found[p].team
                                            /\ found[r].no = found[p].no}} \ {""}
Taken(names) ==
  CHOOSE name \in (IF names \ {Match!Synthetic} # {} THEN names \ {Match!Synthetic} ELSE names) : TRUE

\* One name for a number: that of all, if all found the same.
LEMMA CoalesceNames ==
  ASSUME NEW found,
         \A p \in DOMAIN found : DOMAIN found[p] = SquadFields /\ (found[p].no = 0 => found[p].name = "")
  PROVE  LET shown == Match!Coalesce(found) IN
         /\ DOMAIN shown = DOMAIN found
         /\ \A p \in DOMAIN found : shown[p].team = found[p].team /\ shown[p].no = found[p].no
         /\ \A p, q \in DOMAIN found :
              found[p].team = found[q].team /\ found[p].no = found[q].no => shown[p].name = shown[q].name
         /\ \A p \in DOMAIN found : \A m :
              /\ m # "" /\ found[p].no # 0
              /\ \A q \in DOMAIN found :
                   found[q].team = found[p].team /\ found[q].no = found[p].no => found[q].name = m
              => shown[p].name = m
<1> DEFINE shown == Match!Coalesce(found)
<1>1. shown = [p \in DOMAIN found |->
                 IF found[p].no = 0 \/ NamesIn(found, p) = {} THEN found[p]
                 ELSE [found[p] EXCEPT !.name = Taken(NamesIn(found, p))]]
  BY DEF Match!Coalesce, NamesIn, Taken
<1> HIDE DEF shown
<1>2. ASSUME NEW p \in DOMAIN found
      PROVE  /\ shown[p].team = found[p].team /\ shown[p].no = found[p].no
             /\ shown[p].name = IF found[p].no = 0 \/ NamesIn(found, p) = {} THEN found[p].name
                                ELSE Taken(NamesIn(found, p))
  BY <1>1 DEF SquadFields
<1>3. ASSUME NEW p \in DOMAIN found, NEW q \in DOMAIN found,
             found[p].team = found[q].team, found[p].no = found[q].no
      PROVE  shown[p].name = shown[q].name
  <2>1. NamesIn(found, p) = NamesIn(found, q)
    BY <1>3 DEF NamesIn
  <2>2. CASE found[p].no = 0
    BY <1>2, <1>3, <2>2
  <2>3. CASE found[p].no # 0 /\ NamesIn(found, p) = {}
    <3>1. found[p].name = "" /\ found[q].name = ""
      BY <2>1, <2>3 DEF NamesIn
    <3> QED
      BY <1>2, <1>3, <2>1, <2>3, <3>1
  <2>4. CASE found[p].no # 0 /\ NamesIn(found, p) # {}
    BY <1>2, <1>3, <2>1, <2>4
  <2> QED
    BY <2>2, <2>3, <2>4
<1>4. ASSUME NEW p \in DOMAIN found, NEW m, m # "", found[p].no # 0,
             \A q \in DOMAIN found :
               found[q].team = found[p].team /\ found[q].no = found[p].no => found[q].name = m
      PROVE  shown[p].name = m
  <2>1. NamesIn(found, p) = {m}
    BY <1>4 DEF NamesIn
  <2>2. Taken({m}) = m
    <3>1. CASE m = Match!Synthetic
      BY <3>1 DEF Taken
    <3>2. CASE m # Match!Synthetic
      <4>1. {m} \ {Match!Synthetic} = {m}
        BY <3>2
      <4> QED
        BY <4>1 DEF Taken
    <3> QED
      BY <3>1, <3>2
  <2> QED
    BY <1>2, <1>4, <2>1, <2>2
<1>5. DOMAIN shown = DOMAIN found
  BY <1>1
<1> QED
  BY <1>2, <1>3, <1>4, <1>5 DEF shown

\* Who has a number gets a name, under that number and in that team.
Resolves(found, t, no, name, fought, filed) ==
  /\ DOMAIN found = SquadFields /\ found.team = t
  /\ found.no = IF no # 0 THEN no ELSE fought
  /\ found.no = 0 => found.name = ""
  /\ name # "" => found.name = name
  /\ name = "" /\ found.no # 0 =>
       found.name = IF Match!Lookup(t, found.no, filed) # "" THEN Match!Lookup(t, found.no, filed)
                    ELSE Match!Synthetic

LEMMA Resolved ==
  ASSUME NEW t, NEW no, NEW name, NEW fought, NEW filed, name # "" => no # 0
  PROVE  Resolves(Match!ResolveSquad(t, no, name, fought, filed), t, no, name, fought, filed)
<1> DEFINE n == IF no # 0 THEN no ELSE fought
           known == Match!Lookup(t, n, filed)
           best == IF known # "" THEN known ELSE Match!Synthetic
           found == Match!ResolveSquad(t, no, name, fought, filed)
<1>1. found = IF name # "" \/ n = 0 THEN [team |-> t, no |-> n, name |-> name]
              ELSE [team |-> t, no |-> n, name |-> best]
  BY DEF Match!ResolveSquad
<1>2. name # "" => n # 0 /\ n = no
  OBVIOUS
<1> HIDE DEF n, best, found
<1>3. /\ DOMAIN found = SquadFields /\ found.team = t /\ found.no = n
      /\ found.name = IF name # "" \/ n = 0 THEN name ELSE best
  <2>1. CASE name # "" \/ n = 0
    BY <1>1, <2>1 DEF SquadFields
  <2>2. CASE ~(name # "" \/ n = 0)
    BY <1>1, <2>2 DEF SquadFields
  <2> QED
    BY <2>1, <2>2
<1>4. name = "" /\ found.no # 0 =>
        found.name = IF Match!Lookup(t, found.no, filed) # "" THEN Match!Lookup(t, found.no, filed)
                     ELSE Match!Synthetic
  BY <1>3 DEF best
<1>5. (found.no = 0 => found.name = "") /\ (name # "" => found.name = name)
  BY <1>2, <1>3
<1> QED
  BY <1>3, <1>4, <1>5 DEF n, found, Resolves

\* What the snapshot knows of the squads.
Known(t, n) == {p \in DOMAIN board : board[p].team = t /\ board[p].no = n /\ board[p].name # ""}

LEMMA LookupKnows ==
  ASSUME BoardOK, NEW t, NEW n, NEW filed, Known(t, n) # {}
  PROVE  /\ Match!Lookup(t, n, filed) = named[t][n] /\ named[t][n] # ""
         /\ \A p \in Known(t, n) : board[p].name = named[t][n]
<1>1. ASSUME NEW p \in Known(t, n)  PROVE board[p].name = named[t][n] /\ board[p].name # ""
  BY <1>1 DEF Known, BoardOK
<1>2. Match!Lookup(t, n, filed) = board[CHOOSE p \in Known(t, n) : TRUE].name
  BY DEF Match!Lookup, Match!Rows, Known
<1>3. (CHOOSE p \in Known(t, n) : TRUE) \in Known(t, n)
  OBVIOUS
<1> QED
  BY <1>1, <1>2, <1>3

\* Who is on the scoreboard.
LEMMA BoardFound ==
  ASSUME BoardOK, NEW p \in DOMAIN board, NEW filed
  PROVE  LET found == Match!BoardPlayer(p, board[p], filed) IN
         /\ DOMAIN found = SquadFields /\ found.team = team[p]
         /\ found.no = 0 => found.name = ""
         /\ board[p].no # 0 => found.no = squad[p]
         /\ found.no # 0 /\ Known(team[p], found.no) # {} => found.name = named[team[p]][found.no]
<1> DEFINE row == board[p]
           fought == Match!LastCombatSquad(p)
           found == Match!ResolveSquad(row.team, row.no, row.name, fought, filed)
<1>1. /\ row.team = team[p] /\ row.no \in {0, squad[p]}
      /\ row.name # "" => row.no # 0 /\ row.name = named[team[p]][squad[p]]
  BY DEF BoardOK
<1>2. Match!BoardPlayer(p, board[p], filed) = found
  BY DEF Match!BoardPlayer
<1> HIDE DEF row, fought
<1>3. Resolves(found, row.team, row.no, row.name, fought, filed)
  BY <1>1, Resolved
<1> HIDE DEF found
<1>4. ASSUME found.no # 0, Known(team[p], found.no) # {}  PROVE found.name = named[team[p]][found.no]
  <2>1. Match!Lookup(team[p], found.no, filed) = named[team[p]][found.no] /\ named[team[p]][found.no] # ""
    BY <1>4, LookupKnows
  <2>2. CASE row.name # ""
    BY <1>1, <1>3, <2>2 DEF Resolves
  <2>3. CASE row.name = ""
    BY <1>1, <1>3, <1>4, <2>1, <2>3 DEF Resolves
  <2> QED
    BY <2>2, <2>3
<1> QED
  BY <1>1, <1>2, <1>3, <1>4 DEF row, Resolves

LEMMA GreatestNumber ==
  ASSUME NEW n \in Nat, NEW B, B \subseteq 1..n, B # {}
  PROVE  \E m \in B : \A k \in B : m >= k
<1> DEFINE C == {n - k : k \in B}
<1>1. C \subseteq Nat /\ C # {}
  <2>1. \A k \in B : k \in 1..n
    OBVIOUS
  <2>2. \A k \in 1..n : n - k \in Nat
    OBVIOUS
  <2> QED
    BY <2>1, <2>2
<1>2. PICK l \in C : \A k \in C : l <= k
  <2> HIDE DEF C
  <2> QED
    BY <1>1, LeastNumber
<1>3. PICK m \in B : l = n - m
  OBVIOUS
<1>4. ASSUME NEW k \in B  PROVE m >= k
  <2>1. n - m <= n - k
    BY <1>2, <1>3
  <2>2. m \in 1..n /\ k \in 1..n
    OBVIOUS
  <2> QED
    BY <2>1, <2>2
<1> QED
  BY <1>4

\* Without a scoreboard, who created a squad has its number.
LEMMA LegacyFound ==
  ASSUME RoundBounds, RoundTypeOK, NEW p, NEW t, NEW filed
  PROVE  LET found == Match!LegacyPlayer(p, t, filed) IN
         DOMAIN found = SquadFields /\ (found.no = 0 => found.name = "")
<1> DEFINE made == {i \in 1..Len(creations) : creations[i].by = p}
           own == IF made # {} THEN Match!Max(made) ELSE 0
<1>1. Match!LegacyPlayer(p, t, filed) =
        IF own = 0 THEN Match!ResolveSquad(t, 0, "", Match!LastCombatSquad(p), filed)
        ELSE Match!ResolveSquad(t, creations[own].no, creations[own].name, 0, filed)
  BY DEF Match!LegacyPlayer, Match!SelectLastInSubSeq
<1>2. own # 0 => creations[own].no # 0
  <2>1. SUFFICES ASSUME made # {}  PROVE Match!Max(made) \in 1..Len(creations)
    <3>1. \A c \in Creation : c.no # 0
      BY DEF Creation, RoundBounds
    <3>2. \A i \in 1..Len(creations) : creations[i] \in Creation
      <4> HIDE DEF Creation
      <4> QED
        BY DEF RoundTypeOK
    <3> QED
      BY <2>1, <3>1, <3>2
  <2>2. Len(creations) \in Nat /\ made \subseteq 1..Len(creations)
    BY DEF RoundTypeOK
  <2> HIDE DEF made
  <2>3. \E m \in made : \A k \in made : m >= k
    BY <2>1, <2>2, GreatestNumber
  <2>4. Match!Max(made) = CHOOSE m \in made : \A k \in made : m >= k
    BY DEF Match!Max
  <2> QED
    BY <2>2, <2>3, <2>4
<1> HIDE DEF own
<1>3. CASE own = 0
  <2>1. Resolves(Match!LegacyPlayer(p, t, filed), t, 0, "", Match!LastCombatSquad(p), filed)
    BY <1>1, <1>3, Resolved
  <2> QED
    BY <2>1 DEF Resolves
<1>4. CASE own # 0
  <2>1. Resolves(Match!LegacyPlayer(p, t, filed), t, creations[own].no, creations[own].name, 0, filed)
    BY <1>1, <1>2, <1>4, Resolved
  <2> QED
    BY <2>1 DEF Resolves
<1> QED
  BY <1>3, <1>4

\* What is found for each player, and who is shown.
LEMMA FoundFacts ==
  ASSUME RoundBounds, RoundTypeOK, BoardOK, NEW filed
  PROVE  LET found == Match!Found(filed) IN
         /\ DOMAIN found \subseteq Player
         /\ \A p \in DOMAIN found : DOMAIN found[p] = SquadFields /\ (found[p].no = 0 => found[p].name = "")
         /\ DOMAIN board # {} => DOMAIN found = DOMAIN board
         /\ DOMAIN board # {} => \A p \in DOMAIN board : found[p] = Match!BoardPlayer(p, board[p], filed)
<1> DEFINE found == Match!Found(filed)
           Legacy(p) == Match!LegacyPlayer(p, Match!FirstTeam(Match!Sightings(p, filed)), filed)
<1>1. found = IF DOMAIN board # {} THEN [p \in DOMAIN board |-> Match!BoardPlayer(p, board[p], filed)]
              ELSE [p \in Player |-> Legacy(p)]
  BY DEF Match!Found, Match!HasScoreboard, Match!Rows, Match!BoardRoster
<1>2. \A p \in Player : DOMAIN Legacy(p) = SquadFields /\ (Legacy(p).no = 0 => Legacy(p).name = "")
  BY LegacyFound
<1>3. \A p \in DOMAIN board :
        LET row == Match!BoardPlayer(p, board[p], filed) IN
        DOMAIN row = SquadFields /\ (row.no = 0 => row.name = "")
  BY BoardFound
<1>4. DOMAIN board \subseteq Player
  BY DEF BoardOK
<1> HIDE DEF found, Legacy
<1>5. CASE DOMAIN board # {}
  <2>1. found = [p \in DOMAIN board |-> Match!BoardPlayer(p, board[p], filed)]
    BY <1>1, <1>5
  <2> QED
    BY <1>3, <1>4, <2>1 DEF found
<1>6. CASE DOMAIN board = {}
  <2>1. found = [p \in Player |-> Legacy(p)]
    BY <1>1, <1>6
  <2> QED
    BY <1>2, <1>6, <2>1 DEF found
<1> QED
  BY <1>5, <1>6

LEMMA DetailFacts ==
  ASSUME RoundBounds, RoundTypeOK, CountOK, BoardOK
  PROVE  Match!IsTrue(Match!Detail)
<1> DEFINE filed == Match!Filed
           found == Match!Found(filed)
           kept == Match!WithTeam(found)
           shown == Match!Coalesce(kept)
           detail == Match!Detail
<1>1. /\ DOMAIN found \subseteq Player
      /\ \A p \in DOMAIN found : DOMAIN found[p] = SquadFields /\ (found[p].no = 0 => found[p].name = "")
      /\ DOMAIN board # {} => DOMAIN found = DOMAIN board
      /\ DOMAIN board # {} => \A p \in DOMAIN board : found[p] = Match!BoardPlayer(p, board[p], filed)
  BY FoundFacts
<1> HIDE DEF filed
<1>2. /\ DOMAIN kept = {p \in DOMAIN found : found[p].team # 0}
      /\ \A p \in DOMAIN kept : kept[p] = found[p]
  BY DEF Match!WithTeam
<1> HIDE DEF found, kept
<1>3. \A p \in DOMAIN kept : DOMAIN kept[p] = SquadFields /\ (kept[p].no = 0 => kept[p].name = "")
  BY <1>1, <1>2
<1>4. /\ DOMAIN shown = DOMAIN kept
      /\ \A p \in DOMAIN kept : shown[p].team = kept[p].team /\ shown[p].no = kept[p].no
      /\ \A p, q \in DOMAIN kept :
           kept[p].team = kept[q].team /\ kept[p].no = kept[q].no => shown[p].name = shown[q].name
      /\ \A p \in DOMAIN kept : \A m :
           /\ m # "" /\ kept[p].no # 0
           /\ \A q \in DOMAIN kept :
                kept[q].team = kept[p].team /\ kept[q].no = kept[p].no => kept[q].name = m
           => shown[p].name = m
  BY <1>3, CoalesceNames
<1> HIDE DEF shown
<1>5. /\ DOMAIN detail = DOMAIN shown
      /\ \A p \in DOMAIN shown : detail[p].squad = shown[p] /\ detail[p].score = Match!Score(p, shown[p].team)
  BY DEF Match!Detail, Match!Scored, filed, found, kept, shown
<1> HIDE DEF detail
<1>6. Match!ScoresAddUp(detail)
  <2>1. ASSUME NEW p \in DOMAIN detail  PROVE detail[p].score = tally[p]
    <3>1. p \in Player
      BY <1>1, <1>2, <1>4, <1>5
    <3>2. Match!Score(p, shown[p].team) = Match!Score(p, 0)
      BY ScoreIs
    <3> QED
      BY <1>5, <3>1, <3>2 DEF CountOK
  <2> QED
    BY <2>1 DEF Match!ScoresAddUp
<1>7. Match!OneNamePerSquad(detail)
  <2>1. ASSUME NEW p \in DOMAIN detail, NEW q \in DOMAIN detail,
               detail[p].squad.team = detail[q].squad.team, detail[p].squad.no = detail[q].squad.no
        PROVE  detail[p].squad.name = detail[q].squad.name
    <3>1. p \in DOMAIN kept /\ q \in DOMAIN kept /\ detail[p].squad = shown[p] /\ detail[q].squad = shown[q]
      BY <1>4, <1>5
    <3>2. kept[p].team = kept[q].team /\ kept[p].no = kept[q].no
      BY <1>4, <2>1, <3>1
    <3>3. shown[p].name = shown[q].name
      BY <1>4, <3>1, <3>2, Zenon
    <3> QED
      BY <3>1, <3>3
  <2> QED
    BY <2>1 DEF Match!OneNamePerSquad
<1>8. ASSUME DOMAIN board # {}  PROVE Match!BoardIsShown(detail)
  <2>1. DOMAIN found = DOMAIN board /\ \A p \in DOMAIN board : found[p] = Match!BoardPlayer(p, board[p], filed)
    BY <1>1, <1>8
  <2>2. ASSUME NEW p \in DOMAIN board
        PROVE  /\ found[p].team = team[p] /\ found[p].team # 0
               /\ board[p].no # 0 => found[p].no = squad[p]
               /\ found[p].no # 0 /\ Known(team[p], found[p].no) # {} =>
                    found[p].name = named[team[p]][found[p].no]
    <3>1. team[p] # 0
      <4>1. p \in Player /\ team \in [Player -> Match!Team]
        BY DEF RoundTypeOK, BoardOK
      <4>2. \A t \in Match!Team : t # 0
        BY DEF Match!Team
      <4> QED
        BY <4>1, <4>2
    <3> DEFINE row == Match!BoardPlayer(p, board[p], filed)
    <3>2. /\ row.team = team[p] /\ (board[p].no # 0 => row.no = squad[p])
          /\ row.no # 0 /\ Known(team[p], row.no) # {} => row.name = named[team[p]][row.no]
      BY BoardFound
    <3>3. found[p] = row
      BY <2>1
    <3> HIDE DEF row
    <3> QED
      BY <3>1, <3>2, <3>3
  <2>3. DOMAIN kept = DOMAIN board
    BY <1>2, <2>1, <2>2
  <2>4. ASSUME NEW p \in DOMAIN board  PROVE detail[p].squad.team = team[p]
    <3>1. p \in DOMAIN kept /\ detail[p].squad = shown[p] /\ kept[p] = found[p]
      BY <1>2, <1>4, <1>5, <2>3
    <3>2. shown[p].team = kept[p].team
      BY <1>4, <3>1
    <3> QED
      BY <2>2, <3>1, <3>2
  <2>5. ASSUME NEW p \in DOMAIN board, board[p].no # 0
        PROVE  /\ detail[p].squad.no = squad[p]
               /\ Known(team[p], squad[p]) # {} => detail[p].squad.name = named[team[p]][squad[p]]
    <3> DEFINE m == named[team[p]][squad[p]]
    <3>1. detail[p].squad = shown[p] /\ shown[p].no = kept[p].no /\ kept[p] = found[p]
          /\ found[p].no = squad[p] /\ found[p].team = team[p]
      BY <1>2, <1>4, <1>5, <2>2, <2>3, <2>5
    <3>2. squad[p] # 0
      BY <2>5 DEF BoardOK
    <3>3. ASSUME Known(team[p], squad[p]) # {}  PROVE shown[p].name = m
      <4>1. m # ""
        BY <3>3, LookupKnows
      <4>2. ASSUME NEW q \in DOMAIN kept, kept[q].team = kept[p].team, kept[q].no = kept[p].no
            PROVE  kept[q].name = m
        <5>1. q \in DOMAIN board /\ kept[q] = found[q]
          BY <1>2, <2>3
        <5>2. team[q] = team[p] /\ found[q].no = squad[p]
          BY <2>2, <3>1, <4>2, <5>1
        <5> QED
          BY <2>2, <3>2, <3>3, <5>1, <5>2
      <4> HIDE DEF m
      <4>3. p \in DOMAIN kept /\ kept[p].no # 0
        BY <2>3, <3>1, <3>2
      <4> QED
        BY <1>4, <4>1, <4>2, <4>3
    <3> QED
      BY <3>1, <3>3
  <2>6. ASSUME NEW p \in DOMAIN board, NEW q \in DOMAIN board,
               board[q].team = team[p], board[q].no = squad[p], board[q].name # ""
        PROVE  Known(team[p], squad[p]) # {}
    BY <2>6 DEF Known
  <2>7. DOMAIN detail = DOMAIN board
    BY <1>4, <1>5, <2>3
  <2> QED
    BY <2>4, <2>5, <2>6, <2>7 DEF Match!BoardIsShown, Match!Rows
<1> QED
  BY <1>6, <1>7, <1>8 DEF Match!IsTrue, Match!HasScoreboard, Match!Rows, detail

\* What the site shows of a round that has ended is what happened in it.
THEOREM DetailsAreTrue ==
  ASSUME RoundBounds
  PROVE  Match!Spec => []DetailIsTrue
<1>1. Match!Init => RoundOK
  BY RoundInit
<1>2. RoundOK /\ [Match!Next]_(Match!vars) => RoundOK'
  BY RoundStep
<1>3. RoundOK => DetailIsTrue
  BY DetailFacts DEF RoundOK, DetailIsTrue, Match!DetailIsTrue
<1> QED
  BY <1>1, <1>2, <1>3, PTL DEF Match!Spec
=============================================================================
