--------------------------- MODULE Accounts_proofs ---------------------------
(***************************************************************************)
(* Proofs about Sessions: type correctness, that what an open page may do   *)
(* was granted no longer ago than the life of its JWT and one call, and     *)
(* that what POST /auth/sync answers is as recent as its cache allows.      *)
(*                                                                         *)
(* A permission travels through a call, the cache and the JWT.  SInv gives   *)
(* each of them its own bound: what a call has read is no older than the    *)
(* call, what an answer holds no older than the answer and one call, what a *)
(* token holds no older than the token and one call.  The token in the cache *)
(* needs both bounds, because its own age decides how long a page believes  *)
(* it and the age of the answer how long the cache hands it out.           *)
(*                                                                         *)
(* And about Presence: that the rosters come to be true.  What a page shows   *)
(* was last sent to it, what is sent is what the data of the sockets say,     *)
(* and these are what the pages have said; RInv says, for each of the three   *)
(* steps, what is still on its way (see the roster, below).                  *)
(***************************************************************************)
EXTENDS MCAccounts, Sequences, WellFoundedInduction, TLAPS

\* The histories that gone takes, and when one of them, g, says that permission p came by a
\* role that m had, and the role had p, within the last k ticks; or by that or as an extra.
Histories == [role : [Member -> [Role -> Age]], grant : [Role -> [Perm -> Age]],
              extra : [Member -> [Perm -> Age]]]
ByRole(g, m, p, k) == \E r \in Role : g.role[m][r] <= k /\ g.grant[r][p] <= k
Within(g, m, p, k) == g.extra[m][p] <= k \/ ByRole(g, m, p, k)

\* All that P allows member m was granted within the last k ticks.
Backed(g, m, P, k) == \A p \in P : Within(g, m, p, k)

\* What is there now has been gone for no time.
PresentOK ==
  /\ \A m \in Member : \A r \in guild[m] : gone.role[m][r] = 0
  /\ \A r \in Role : \A p \in grants[r] : gone.grant[r][p] = 0
  /\ \A m \in Member : \A p \in extra[m] : gone.extra[m][p] = 0

\* A token t of member m; an answer a; a call q.
TokenOK(g, m, t) == t # None => Backed(g, m, t.perms, t.age + Patience)

AnswerOK(g, m, a) ==
  a # None => TokenOK(g, m, a.token) /\ Backed(g, m, a.token.perms, a.age + Patience)

CallOK(g, q) ==
  q.at # "idle" =>
    /\ \A r \in q.roles : g.role[q.who][r] <= q.took
    /\ \A p \in q.got : ByRole(g, q.who, p, q.took)
    /\ TokenOK(g, q.who, q.token)
    /\ q.token # None => Backed(g, q.who, q.token.perms, q.took)

\* The inductive invariant.
SInv ==
  /\ TypeOK
  /\ PresentOK
  /\ \A m \in Member : TokenOK(gone, m, page[m].token) /\ AnswerOK(gone, m, cache[m])
  /\ \A c \in Call : CallOK(gone, call[c])

-----------------------------------------------------------------------------
(* Ages.                                                                   *)

\* From history g to history h no age grows by more than d.
Drifts(g, h, d) ==
  /\ \A m \in Member, r \in Role : h.role[m][r] <= g.role[m][r] + d
  /\ \A r \in Role, p \in Perm : h.grant[r][p] <= g.grant[r][p] + d
  /\ \A m \in Member, p \in Perm : h.extra[m][p] <= g.extra[m][p] + d

\* When every age has grown by at most d, j ticks reach as far back as k did before: they are
\* d more, or no less than any age there is.
Reaches(k, d, j) == k + d <= j \/ Cap <= j

\* The constants that ages are compared with are numbers.
LEMMA Constants ==
  /\ TTL \in Nat /\ Life \in Nat /\ Patience \in Nat /\ Cap \in Nat /\ Patience < Cap
  BY SessionsAssumption DEF Cap

\* An age is a number, and grows by at most one.
LEMMA OlderIsOlder ==
  ASSUME NEW a \in Age
  PROVE  a \in Nat /\ Older(a) \in Age /\ Older(a) <= a + 1 /\ Reaches(a, 1, Older(a))
  BY Constants DEF Age, Older, Reaches

\* Every age in a history is an age.
LEMMA HistoryTypes ==
  ASSUME NEW g \in Histories
  PROVE  /\ \A m \in Member, r \in Role : g.role[m][r] \in Age
         /\ \A r \in Role, p \in Perm : g.grant[r][p] \in Age
         /\ \A m \in Member, p \in Perm : g.extra[m][p] \in Age
<1>1. /\ g.role \in [Member -> [Role -> Age]] /\ g.grant \in [Role -> [Perm -> Age]]
      /\ g.extra \in [Member -> [Perm -> Age]]
  BY DEF Histories
<1> QED
  BY <1>1

\* What was recent stays so, by as much longer as the ages have grown.
LEMMA Drifting ==
  ASSUME NEW g \in Histories, NEW h \in Histories, NEW d \in Nat, Drifts(g, h, d),
         NEW m \in Member, NEW k \in Nat, NEW j \in Nat, Reaches(k, d, j)
  PROVE  /\ \A r \in Role : g.role[m][r] <= k => h.role[m][r] <= j
         /\ \A p \in Perm : ByRole(g, m, p, k) => ByRole(h, m, p, j)
         /\ \A P \in SUBSET Perm : Backed(g, m, P, k) => Backed(h, m, P, j)
<1> USE HistoryTypes, Constants
<1>1. \A r \in Role : g.role[m][r] <= k => h.role[m][r] <= j
  BY DEF Age, Drifts, Reaches
<1>2. \A r \in Role, p \in Perm : g.grant[r][p] <= k => h.grant[r][p] <= j
  BY DEF Age, Drifts, Reaches
<1>3. \A p \in Perm : g.extra[m][p] <= k => h.extra[m][p] <= j
  BY DEF Age, Drifts, Reaches
<1>4. \A p \in Perm : ByRole(g, m, p, k) => ByRole(h, m, p, j)
  BY <1>1, <1>2 DEF ByRole
<1> QED
  BY <1>1, <1>3, <1>4 DEF Backed, Within

\* More time allows more.
LEMMA Longer ==
  ASSUME NEW g \in Histories, NEW m \in Member, NEW P \in SUBSET Perm,
         NEW k \in Nat, NEW j \in Nat, k <= j, Backed(g, m, P, k)
  PROVE  Backed(g, m, P, j)
<1>1. Drifts(g, g, 0)
  BY HistoryTypes, Constants DEF Drifts, Age
<1> QED
  BY <1>1, Drifting DEF Reaches

-----------------------------------------------------------------------------
(* Tokens, answers and calls that age as the history does.                 *)

\* Token u is token t after a step in which ages grow by at most d.
Kept(t, u, d) == u # None => t # None /\ u.perms = t.perms /\ Reaches(t.age, d, u.age)

LEMMA TokenKept ==
  ASSUME NEW g \in Histories, NEW h \in Histories, NEW d \in Nat, Drifts(g, h, d),
         NEW m \in Member, NEW t \in Token \cup {None}, NEW u \in Token \cup {None},
         Kept(t, u, d), TokenOK(g, m, t)
  PROVE  TokenOK(h, m, u)
<1> SUFFICES ASSUME u # None  PROVE Backed(h, m, u.perms, u.age + Patience)
  BY DEF TokenOK
<1>1. t # None /\ t \in Token /\ u \in Token
  BY DEF Kept
<1>2. t.perms \in SUBSET Perm /\ t.age \in Nat /\ u.age \in Nat /\ u.perms = t.perms
  BY <1>1, Constants DEF Token, Age, Kept
<1>3. Reaches(t.age + Patience, d, u.age + Patience)
  BY <1>2, Constants DEF Kept, Reaches
<1> QED
  BY <1>1, <1>2, <1>3, Drifting, Constants DEF TokenOK

LEMMA AnswerKept ==
  ASSUME NEW g \in Histories, NEW h \in Histories, NEW d \in Nat, Drifts(g, h, d),
         NEW m \in Member, NEW a \in Answer \cup {None}, NEW b \in Answer \cup {None},
         b # None => a # None /\ Kept(a.token, b.token, d) /\ Reaches(a.age, d, b.age),
         AnswerOK(g, m, a)
  PROVE  AnswerOK(h, m, b)
<1> SUFFICES ASSUME b # None
             PROVE  TokenOK(h, m, b.token) /\ Backed(h, m, b.token.perms, b.age + Patience)
  BY DEF AnswerOK
<1>1. a # None /\ a \in Answer /\ b \in Answer
  OBVIOUS
<1>2. a.token \in Token /\ b.token \in Token /\ b.token # None /\ a.age \in Nat /\ b.age \in Nat
  BY <1>1, NoneAssumption, Constants DEF Answer, Age
<1>3. a.token.perms \in SUBSET Perm /\ b.token.perms = a.token.perms
  BY <1>2 DEF Token, Kept
<1>4. Reaches(a.age + Patience, d, b.age + Patience)
  BY <1>2, Constants DEF Reaches
<1>5. Backed(h, m, b.token.perms, b.age + Patience)
  BY <1>1, <1>2, <1>3, <1>4, Drifting, Constants DEF AnswerOK
<1> QED
  BY <1>1, <1>2, <1>5, TokenKept DEF AnswerOK

LEMMA CallKept ==
  ASSUME NEW g \in Histories, NEW h \in Histories, NEW d \in Nat, Drifts(g, h, d),
         NEW q \in Calling, NEW x \in Calling, CallOK(g, q), q.who \in Member,
         q.at # "idle", x.who = q.who, x.roles = q.roles, x.got = q.got,
         Kept(q.token, x.token, d), Reaches(q.took, d, x.took)
  PROVE  CallOK(h, x)
<1>1. /\ q.roles \in SUBSET Role /\ q.got \in SUBSET Perm /\ q.took \in Nat /\ x.took \in Nat
      /\ q.token \in Token \cup {None} /\ x.token \in Token \cup {None}
  BY Constants DEF Calling, Age
<1>2. \A r \in x.roles : h.role[x.who][r] <= x.took
  BY <1>1, Drifting DEF CallOK
<1>3. \A p \in x.got : ByRole(h, x.who, p, x.took)
  BY <1>1, Drifting DEF CallOK
<1>4. TokenOK(h, x.who, x.token)
  BY <1>1, TokenKept DEF CallOK
<1>5. ASSUME x.token # None  PROVE Backed(h, x.who, x.token.perms, x.took)
  <2>1. q.token # None /\ x.token.perms = q.token.perms /\ q.token.perms \in SUBSET Perm
    BY <1>1, <1>5 DEF Kept, Token
  <2> QED
    BY <1>1, <2>1, Drifting DEF CallOK
<1> QED
  BY <1>2, <1>3, <1>4, <1>5 DEF CallOK

-----------------------------------------------------------------------------
(* Steps.                                                                  *)

\* What the types say of a call that is under way.
LEMMA Busy ==
  ASSUME TypeOK, NEW c \in Call, call[c].at # "idle"
  PROVE  /\ call[c] \in Calling /\ call[c].who \in Member
         /\ call[c].took \in Nat /\ call[c].took <= Patience
         /\ call[c].roles \in SUBSET Role /\ call[c].got \in SUBSET Perm
         /\ call[c].token \in Token \cup {None} /\ gone \in Histories
  BY Constants DEF TypeOK, Calling, Age, Histories

\* What AnswersAreRecent says of a step.
AnswerStep ==
  \A m \in Member : page'[m].token # None /\ page'[m].token # page[m].token
                      /\ page'[m].token # AgeToken(page[m].token)
    => \A p \in page'[m].token.perms : Recent(m, p, TTL + 2 * Patience)

\* A change of rights: no age grows, and calls, pages and answers are as they were, but for
\* answers that are taken from the cache.
LEMMA RightsMove ==
  ASSUME SInv, TypeOK', PresentOK', Drifts(gone, gone', 0), UNCHANGED <<call, page>>,
         \A m \in Member : cache'[m] \in {None, cache[m]}
  PROVE  SInv' /\ AnswerStep
<1>0. TypeOK /\ gone \in Histories /\ gone' \in Histories
  BY DEF SInv, TypeOK, Histories
<1>1. \A t \in Token \cup {None} : Kept(t, t, 0)
  BY Constants DEF Kept, Reaches, Token, Age
<1>2. ASSUME NEW m \in Member  PROVE TokenOK(gone', m, page'[m].token)
  <2>1. page[m].token \in Token \cup {None} /\ page'[m].token = page[m].token
    BY <1>0 DEF TypeOK, Layout
  <2> QED
    BY <1>0, <1>1, <2>1, TokenKept DEF SInv
<1>3. ASSUME NEW m \in Member  PROVE AnswerOK(gone', m, cache'[m])
  <2>1. CASE cache'[m] = None
    BY <2>1 DEF AnswerOK
  <2>2. CASE cache'[m] = cache[m] /\ cache[m] # None
    <3>1. cache[m] \in Answer /\ cache[m].token \in Token /\ cache[m].age \in Nat
      BY <1>0, <2>2, Constants DEF TypeOK, Answer, Age
    <3>2. Kept(cache[m].token, cache'[m].token, 0) /\ Reaches(cache[m].age, 0, cache'[m].age)
      BY <1>1, <2>2, <3>1 DEF Reaches
    <3> QED
      BY <1>0, <2>2, <3>1, <3>2, AnswerKept DEF SInv
  <2> QED
    BY <2>1, <2>2
<1>4. ASSUME NEW c \in Call  PROVE CallOK(gone', call'[c])
  <2>1. CASE call[c].at = "idle"
    BY <2>1 DEF CallOK
  <2>2. CASE call[c].at # "idle"
    <3>1. Kept(call[c].token, call[c].token, 0) /\ Reaches(call[c].took, 0, call[c].took)
      BY <1>0, <1>1, <2>2, Busy DEF Reaches
    <3> QED
      BY <1>0, <2>2, <3>1, Busy, CallKept DEF SInv
  <2> QED
    BY <2>1, <2>2
<1> QED
  BY <1>2, <1>3, <1>4 DEF SInv, AnswerStep

LEMMA SetGuildStep ==
  ASSUME SInv, NEW m \in Member, NEW R \in SUBSET Role, NEW in \in BOOLEAN, SetGuild(m, R, in),
         trouble' \in Nat
  PROVE  SInv' /\ AnswerStep
<1>0. TypeOK /\ gone \in Histories
  BY DEF SInv, TypeOK, Histories
<1> DEFINE age == Touch(guild[m], R, gone.role[m])
<1>1. gone.role[m] \in [Role -> Age] /\ guild[m] \in SUBSET Role
  BY <1>0 DEF TypeOK
<1>2. /\ age \in [Role -> Age] /\ \A r \in Role : age[r] <= gone.role[m][r]
      /\ \A r \in R : age[r] = 0
  BY <1>1, Constants DEF Touch, Age
<1>3. /\ gone'.role = [gone.role EXCEPT ![m] = age]
      /\ gone'.grant = gone.grant /\ gone'.extra = gone.extra /\ gone' \in Histories
  BY <1>0, <1>2 DEF SetGuild, Histories
<1>4. TypeOK'
  BY <1>0, <1>3 DEF SetGuild, TypeOK, Histories
<1>5. Drifts(gone, gone', 0)
  BY <1>0, <1>2, <1>3, HistoryTypes, Constants DEF Drifts, Histories, Age
<1>6. PresentOK'
  BY <1>0, <1>2, <1>3 DEF SetGuild, PresentOK, SInv, TypeOK
<1> QED
  BY <1>4, <1>5, <1>6, RightsMove DEF SetGuild

LEMMA SetGrantsStep ==
  ASSUME SInv, NEW r \in Role, NEW P \in SUBSET Perm, SetGrants(r, P), trouble' \in Nat,
         edit' \in [at : {"idle", "delete", "create"}, role : Role \cup {None}, perms : SUBSET Perm],
         edit'.at # "idle" => edit'.role \in Role
  PROVE  SInv' /\ AnswerStep
<1>0. TypeOK /\ gone \in Histories
  BY DEF SInv, TypeOK, Histories
<1> DEFINE age == Touch(grants[r], P, gone.grant[r])
<1>1. gone.grant[r] \in [Perm -> Age] /\ grants[r] \in SUBSET Perm
  BY <1>0 DEF TypeOK
<1>2. /\ age \in [Perm -> Age] /\ \A p \in Perm : age[p] <= gone.grant[r][p]
      /\ \A p \in P : age[p] = 0
  BY <1>1, Constants DEF Touch, Age
<1>3. /\ gone'.grant = [gone.grant EXCEPT ![r] = age]
      /\ gone'.role = gone.role /\ gone'.extra = gone.extra /\ gone' \in Histories
  BY <1>0, <1>2 DEF SetGrants, Histories
<1>4. TypeOK'
  BY <1>0, <1>3 DEF SetGrants, TypeOK, Histories
<1>5. Drifts(gone, gone', 0)
  BY <1>0, <1>2, <1>3, HistoryTypes, Constants DEF Drifts, Histories, Age
<1>6. PresentOK'
  BY <1>0, <1>2, <1>3 DEF SetGrants, PresentOK, SInv, TypeOK
<1> QED
  BY <1>4, <1>5, <1>6, RightsMove DEF SetGrants

LEMMA SetExtraStep ==
  ASSUME SInv, NEW m \in Member, NEW P \in SUBSET Perm, SetExtra(m, P)
  PROVE  SInv' /\ AnswerStep
<1>0. TypeOK /\ gone \in Histories
  BY DEF SInv, TypeOK, Histories
<1> DEFINE age == Touch(extra[m], P, gone.extra[m])
<1>1. gone.extra[m] \in [Perm -> Age] /\ extra[m] \in SUBSET Perm
  BY <1>0 DEF TypeOK
<1>2. /\ age \in [Perm -> Age] /\ \A p \in Perm : age[p] <= gone.extra[m][p]
      /\ \A p \in P : age[p] = 0
  BY <1>1, Constants DEF Touch, Age
<1>3. /\ gone'.extra = [gone.extra EXCEPT ![m] = age]
      /\ gone'.role = gone.role /\ gone'.grant = gone.grant /\ gone' \in Histories
  BY <1>0, <1>2 DEF SetExtra, Histories
<1>4. TypeOK'
  <2>1. /\ extra' \in [Member -> SUBSET Perm] /\ clearing' \subseteq Member /\ trouble' \in Nat
        /\ gone' \in Histories
    BY <1>0, <1>3 DEF SetExtra, Troubled, TypeOK
  <2>2. UNCHANGED <<inGuild, guild, grants, disabled, edit, cache, call, page>>
    BY DEF SetExtra
  <2> QED
    BY <1>0, <2>1, <2>2 DEF TypeOK, Histories
<1>5. Drifts(gone, gone', 0)
  BY <1>0, <1>2, <1>3, HistoryTypes, Constants DEF Drifts, Histories, Age
<1>6. PresentOK'
  BY <1>0, <1>2, <1>3 DEF SetExtra, PresentOK, SInv, TypeOK
<1> QED
  BY <1>4, <1>5, <1>6, RightsMove DEF SetExtra

\* Whatever changes neither what a member may do nor a call or a page, and adds nothing to
\* the cache: the account's state, an edit that has written nothing yet, and clearing.
LEMMA NothingGranted ==
  ASSUME SInv, TypeOK', UNCHANGED <<guild, grants, extra, gone, call, page>>,
         \A m \in Member : cache'[m] \in {None, cache[m]}
  PROVE  SInv' /\ AnswerStep
<1>0. TypeOK /\ gone \in Histories
  BY DEF SInv, TypeOK, Histories
<1>1. Drifts(gone, gone', 0)
  BY <1>0, HistoryTypes, Constants DEF Drifts, Age
<1>2. PresentOK'
  BY DEF SInv, PresentOK
<1> QED
  BY <1>1, <1>2, RightsMove

LEMMA StaffStep ==
  ASSUME SInv, Staff
  PROVE  SInv' /\ AnswerStep
<1>0. TypeOK
  BY DEF SInv
<1>1. ASSUME NEW m \in Member, DiscordChanges(m)  PROVE SInv' /\ AnswerStep
  <2>1. trouble' \in Nat
    BY <1>0, <1>1 DEF DiscordChanges, Troubled, TypeOK
  <2>2. PICK R \in SUBSET Role, in \in BOOLEAN : SetGuild(m, R, in)
    BY <1>1 DEF DiscordChanges
  <2> QED
    BY <2>1, <2>2, SetGuildStep
<1>2. ASSUME NEW m \in Member, NEW P \in SUBSET Perm, SetExtra(m, P)  PROVE SInv' /\ AnswerStep
  BY <1>2, SetExtraStep
<1>3. ASSUME NEW m \in Member, NEW b \in BOOLEAN, SetDisabled(m, b)  PROVE SInv' /\ AnswerStep
  <2>1. TypeOK'
    BY <1>0, <1>3 DEF SetDisabled, Troubled, TypeOK
  <2> QED
    BY <1>3, <2>1, NothingGranted DEF SetDisabled
<1>4. ASSUME NEW r \in Role, NEW P \in SUBSET Perm, EditRole(r, P)  PROVE SInv' /\ AnswerStep
  <2>1. TypeOK'
    BY <1>0, <1>4 DEF EditRole, Troubled, TypeOK, rights
  <2> QED
    BY <1>4, <2>1, NothingGranted DEF EditRole, rights
<1>5. ASSUME NEW r \in Role, NEW P \in SUBSET Perm, CreateRole(r, P)  PROVE SInv' /\ AnswerStep
  <2>1. trouble' \in Nat
    BY <1>0, <1>5 DEF CreateRole, Troubled, TypeOK
  <2>2. SetGrants(r, P) /\ UNCHANGED edit
    BY <1>5 DEF CreateRole
  <2>3. /\ edit' \in [at : {"idle", "delete", "create"}, role : Role \cup {None}, perms : SUBSET Perm]
        /\ edit'.at # "idle" => edit'.role \in Role
    BY <1>0, <2>2 DEF TypeOK
  <2> QED
    BY <2>1, <2>2, <2>3, SetGrantsStep
<1>6. ASSUME NEW r \in Role, DeleteRole(r)  PROVE SInv' /\ AnswerStep
  <2>1. /\ edit' \in [at : {"idle", "delete", "create"}, role : Role \cup {None}, perms : SUBSET Perm]
        /\ edit'.at # "idle" => edit'.role \in Role
        /\ trouble' \in Nat
    BY <1>0, <1>6 DEF DeleteRole, Troubled, TypeOK
  <2>2. SetGrants(r, {})
    BY <1>6 DEF DeleteRole
  <2> QED
    BY <2>1, <2>2, SetGrantsStep
<1>7. ASSUME EditFails  PROVE SInv' /\ AnswerStep
  <2>1. TypeOK'
    BY <1>0, <1>7 DEF EditFails, Troubled, TypeOK, rights
  <2> QED
    BY <1>7, <2>1, NothingGranted DEF EditFails, rights
<1> QED
  BY <1>1, <1>2, <1>3, <1>4, <1>5, <1>6, <1>7 DEF Staff

LEMMA StaffContinuesStep ==
  ASSUME SInv, StaffContinues
  PROVE  SInv' /\ AnswerStep
<1>0. TypeOK
  BY DEF SInv
<1>1. ASSUME EditDelete  PROVE SInv' /\ AnswerStep
  <2>1. /\ edit' \in [at : {"idle", "delete", "create"}, role : Role \cup {None}, perms : SUBSET Perm]
        /\ edit'.role \in Role /\ edit.role \in Role /\ trouble' \in Nat
    BY <1>0, <1>1 DEF EditDelete, Calm, TypeOK
  <2> QED
    BY <1>1, <2>1, SetGrantsStep DEF EditDelete
<1>2. ASSUME EditCreate  PROVE SInv' /\ AnswerStep
  <2>1. /\ edit' \in [at : {"idle", "delete", "create"}, role : Role \cup {None}, perms : SUBSET Perm]
        /\ edit'.at = "idle" /\ edit.role \in Role /\ edit.perms \in SUBSET Perm /\ trouble' \in Nat
    BY <1>0, <1>2 DEF EditCreate, Calm, TypeOK
  <2> QED
    BY <1>2, <2>1, SetGrantsStep DEF EditCreate
<1>3. ASSUME NEW m \in Member, ClearSyncCache(m)  PROVE SInv' /\ AnswerStep
  <2>1. TypeOK' /\ \A n \in Member : cache'[n] \in {None, cache[n]}
    BY <1>0, <1>3 DEF ClearSyncCache, Calm, TypeOK, rights
  <2> QED
    BY <1>3, <2>1, NothingGranted DEF ClearSyncCache, rights
<1> QED
  BY <1>1, <1>2, <1>3 DEF StaffContinues

\* Time passes: everything that has an age grows older together.
LEMMA TickStep ==
  ASSUME SInv, Tick
  PROVE  SInv' /\ AnswerStep
<1>0. TypeOK /\ gone \in Histories
  BY DEF SInv, TypeOK, Histories
<1>1. \A t \in Token : /\ AgeToken(t) \in Token /\ AgeToken(t) # None
                       /\ AgeToken(t).perms = t.perms /\ AgeToken(t).age = Older(t.age)
  BY OlderIsOlder, NoneAssumption DEF AgeToken, Token
<1>2. \A t \in Token \cup {None} : /\ AgeToken(t) \in Token \cup {None} /\ Kept(t, AgeToken(t), 1)
                                   /\ (AgeToken(t) # None <=> t # None)
  BY <1>1, OlderIsOlder DEF Kept, AgeToken, Token
<1>3. \A a \in Answer \cup {None} :
        /\ AgeAnswer(a) \in Answer \cup {None}
        /\ AgeAnswer(a) # None => a # None /\ Kept(a.token, AgeAnswer(a).token, 1)
                                  /\ Reaches(a.age, 1, AgeAnswer(a).age)
  <2> SUFFICES ASSUME NEW a \in Answer, a # None
               PROVE  /\ AgeAnswer(a) \in Answer /\ Kept(a.token, AgeAnswer(a).token, 1)
                      /\ Reaches(a.age, 1, AgeAnswer(a).age)
    BY DEF AgeAnswer
  <2>1. a.token \in Token /\ a.age \in Age /\ a.token # None
    BY NoneAssumption DEF Answer
  <2>2. AgeAnswer(a) = [token |-> AgeToken(a.token), age |-> Older(a.age)]
    BY <2>1 DEF AgeAnswer, AgeToken
  <2> QED
    BY <1>1, <1>2, <2>1, <2>2, OlderIsOlder DEF Answer
<1>4. /\ gone'.role = [m \in Member |-> [r \in Role |->
                         IF r \in guild[m] THEN 0 ELSE Older(gone.role[m][r])]]
      /\ gone'.grant = [r \in Role |-> [p \in Perm |->
                         IF p \in grants[r] THEN 0 ELSE Older(gone.grant[r][p])]]
      /\ gone'.extra = [m \in Member |-> [p \in Perm |->
                         IF p \in extra[m] THEN 0 ELSE Older(gone.extra[m][p])]]
  BY DEF Tick
<1>5. gone' \in Histories
  <2>1. 0 \in Age
    BY Constants DEF Age
  <2>2. gone'.role \in [Member -> [Role -> Age]]
    BY <1>0, <1>4, <2>1, HistoryTypes, OlderIsOlder
  <2>3. gone'.grant \in [Role -> [Perm -> Age]]
    BY <1>0, <1>4, <2>1, HistoryTypes, OlderIsOlder
  <2>4. gone'.extra \in [Member -> [Perm -> Age]]
    BY <1>0, <1>4, <2>1, HistoryTypes, OlderIsOlder
  <2>5. gone' = [role |-> gone'.role, grant |-> gone'.grant, extra |-> gone'.extra]
    BY DEF Tick
  <2> QED
    BY <2>2, <2>3, <2>4, <2>5 DEF Histories
<1>6. Drifts(gone, gone', 1)
  BY <1>0, <1>4, HistoryTypes, OlderIsOlder, Constants DEF Drifts, Age
<1>7. PresentOK'
  BY <1>0, <1>4 DEF PresentOK, Tick, rights, TypeOK
<1>8. \A c \in Call : call[c].at = "idle" => call'[c] = call[c]
  BY DEF Tick
<1>9. ASSUME NEW c \in Call, call[c].at # "idle"
      PROVE  /\ call'[c] = [call[c] EXCEPT !.took = @ + 1, !.token = AgeToken(@)]
             /\ call[c].took < Patience
  BY <1>9 DEF Tick
<1>10. ASSUME NEW c \in Call, call[c].at # "idle"
       PROVE  /\ call'[c] \in Calling /\ call'[c].at = call[c].at /\ call'[c].who = call[c].who
              /\ call'[c].roles = call[c].roles /\ call'[c].got = call[c].got
              /\ call'[c].took = call[c].took + 1 /\ call'[c].took <= Patience
              /\ call'[c].token = AgeToken(call[c].token)
  <2>1. call[c] \in Calling /\ call[c].took < Patience /\ call[c].token \in Token \cup {None}
    BY <1>0, <1>9, <1>10, Busy
  <2>2. AgeToken(call[c].token) \in Token \cup {None} /\ call[c].took + 1 \in Age
    BY <1>2, <2>1, Constants DEF Calling, Age
  <2> DEFINE k == call[c].took + 1
             t == AgeToken(call[c].token)
  <2>3. call'[c] = [call[c] EXCEPT !.took = k, !.token = t] /\ k \in Age /\ k <= Patience
    <3>1. k \in Age /\ k <= Patience
      BY <2>1, <2>2, Constants DEF Calling, Age
    <3>2. call'[c] = [call[c] EXCEPT !.took = @ + 1, !.token = AgeToken(@)]
      BY <1>9, <1>10
    <3> QED
      BY <3>1, <3>2, Zenon
  <2> HIDE DEF k, t
  <2>4. /\ call'[c] \in Calling /\ call'[c].at = call[c].at /\ call'[c].who = call[c].who
        /\ call'[c].roles = call[c].roles /\ call'[c].got = call[c].got
        /\ call'[c].took = k /\ call'[c].token = t
    BY <2>1, <2>2, <2>3 DEF Calling, t
  <2> QED
    BY <2>3, <2>4 DEF k, t
<1>11. ASSUME NEW m \in Member
       PROVE  page'[m] \in Layout /\ page'[m].token = AgeToken(page[m].token)
  <2> DEFINE t == AgeToken(page[m].token)
  <2>1. page[m] \in Layout /\ t \in Token \cup {None} /\ page'[m] = [page[m] EXCEPT !.token = t]
    BY <1>0, <1>2 DEF Tick, TypeOK, Layout
  <2> HIDE DEF t
  <2>2. page'[m] \in Layout /\ page'[m].token = t
    BY <2>1 DEF Layout
  <2> QED
    BY <2>2 DEF t
<1>12. TypeOK'
  <2>1. call' \in [Call -> Calling]
    BY <1>0, <1>8, <1>10 DEF Tick, TypeOK
  <2>2. ASSUME NEW c \in Call
        PROVE  /\ call'[c].at = "idle" <=> call'[c].who = None
               /\ call'[c].at = "answer" <=> call'[c].token # None
               /\ call'[c].took <= Patience
    <3>1. call[c] \in Calling
      BY <1>0 DEF TypeOK
    <3> QED
      BY <1>0, <1>2, <1>8, <1>10, <3>1 DEF TypeOK, Calling
  <2>3. page' \in [Member -> Layout]
    BY <1>11 DEF Tick
  <2>4. cache' \in [Member -> Answer \cup {None}]
    BY <1>0, <1>3 DEF Tick, TypeOK
  <2> QED
    BY <1>0, <1>5, <2>1, <2>2, <2>3, <2>4 DEF Tick, Calm, rights, TypeOK, Histories
<1>13. ASSUME NEW m \in Member  PROVE TokenOK(gone', m, page'[m].token)
  <2>1. page[m].token \in Token \cup {None}
    BY <1>0 DEF TypeOK, Layout
  <2> QED
    BY <1>0, <1>2, <1>5, <1>6, <1>11, <2>1, TokenKept DEF SInv
<1>14. ASSUME NEW m \in Member  PROVE AnswerOK(gone', m, cache'[m])
  <2>1. cache[m] \in Answer \cup {None} /\ cache'[m] = AgeAnswer(cache[m])
    BY <1>0 DEF TypeOK, Tick
  <2> QED
    BY <1>0, <1>3, <1>5, <1>6, <2>1, AnswerKept DEF SInv
<1>15. ASSUME NEW c \in Call  PROVE CallOK(gone', call'[c])
  <2>1. CASE call[c].at = "idle"
    BY <1>8, <2>1 DEF CallOK
  <2>2. CASE call[c].at # "idle"
    <3>1. /\ call[c] \in Calling /\ call[c].who \in Member /\ call[c].took \in Nat
          /\ call[c].token \in Token \cup {None}
      BY <1>0, <2>2, Busy
    <3>2. Kept(call[c].token, call'[c].token, 1) /\ Reaches(call[c].took, 1, call'[c].took)
      BY <1>2, <1>10, <2>2, <3>1 DEF Reaches
    <3> QED
      BY <1>0, <1>5, <1>6, <1>10, <2>2, <3>1, <3>2, CallKept DEF SInv
  <2> QED
    BY <2>1, <2>2
<1>16. AnswerStep
  BY <1>11 DEF AnswerStep
<1> QED
  BY <1>7, <1>12, <1>13, <1>14, <1>15, <1>16 DEF SInv

\* A step of one call, which leaves rights and their history alone.
LEMMA OneCall ==
  ASSUME SInv, TypeOK', UNCHANGED <<guild, grants, extra, gone>>, NEW c \in Call,
         \A o \in Call \ {c} : call'[o] = call[o], CallOK(gone, call'[c]),
         \A m \in Member : TokenOK(gone, m, page'[m].token) /\ AnswerOK(gone, m, cache'[m])
  PROVE  SInv'
<1>1. PresentOK'
  BY DEF SInv, PresentOK
<1>2. ASSUME NEW o \in Call  PROVE CallOK(gone', call'[o])
  <2>1. CASE o = c
    BY <2>1
  <2>2. CASE o # c
    BY <2>2 DEF SInv
  <2> QED
    BY <2>1, <2>2
<1> QED
  BY <1>1, <1>2 DEF SInv

\* A call begins with nothing in hand, and only takes answers out of the cache.
LEMMA BeginStep ==
  ASSUME SInv, NEW c \in Call, NEW m \in Member, NEW via \in {"init", "poll", "gone"},
         Begin(c, m, via), trouble' \in Nat
  PROVE  SInv' /\ AnswerStep
<1>0. TypeOK
  BY DEF SInv
<1> DEFINE q == [NoCall EXCEPT !.at = "user", !.who = m, !.via = via]
<1>1. /\ q.at = "user" /\ q.who = m /\ q.took = 0 /\ q.roles = {} /\ q.got = {}
      /\ q.token = None /\ q \in Calling
  <2>1. /\ NoCall \in Calling /\ NoCall.took = 0 /\ NoCall.roles = {} /\ NoCall.got = {}
        /\ NoCall.token = None
    BY Constants DEF NoCall, Calling, Stage, Age
  <2> QED
    BY <2>1 DEF Calling, Stage
<1>2. call' = [call EXCEPT ![c] = q] /\ UNCHANGED <<rights, edit, clearing, page, gone>>
  BY DEF Begin
<1> HIDE DEF q
<1>3. /\ call' \in [Call -> Calling] /\ call'[c] = q
      /\ \A o \in Call \ {c} : call'[o] = call[o]
  BY <1>0, <1>1, <1>2 DEF TypeOK
<1>4. /\ cache' \in [Member -> Answer \cup {None}]
      /\ \A n \in Member : cache'[n] \in {None, cache[n]}
  BY <1>0 DEF Begin, TypeOK
<1>5. ASSUME NEW o \in Call
      PROVE  /\ call'[o].at = "idle" <=> call'[o].who = None
             /\ call'[o].at = "answer" <=> call'[o].token # None
             /\ call'[o].took <= Patience
  <2>1. CASE o = c
    BY <1>1, <1>3, <2>1, NoneAssumption, Constants
  <2>2. CASE o # c
    BY <1>0, <1>3, <2>2 DEF TypeOK
  <2> QED
    BY <2>1, <2>2
<1>6. TypeOK'
  BY <1>0, <1>2, <1>3, <1>4, <1>5 DEF TypeOK, rights
<1>7. CallOK(gone, call'[c])
  BY <1>1, <1>3 DEF CallOK, TokenOK
<1>8. \A n \in Member : TokenOK(gone, n, page'[n].token) /\ AnswerOK(gone, n, cache'[n])
  BY <1>2, <1>4 DEF SInv, AnswerOK
<1>9. AnswerStep
  BY <1>2 DEF AnswerStep
<1> QED
  BY <1>2, <1>3, <1>6, <1>7, <1>8, <1>9, OneCall DEF rights

\* A call ends.  A token that it brings may be believed for its life, and is as recent as the
\* cache allows.
LEMMA EndStep ==
  ASSUME SInv, NEW c \in Call, call[c].at # "idle", NEW t \in Token \cup {None},
         NEW e \in {None, "disabled", "failed"}, End(c, t, e), trouble' \in Nat,
         TokenOK(gone, call[c].who, t),
         t # None => Backed(gone, call[c].who, t.perms, TTL + 2 * Patience),
         cache' \in [Member -> Answer \cup {None}],
         \A m \in Member : AnswerOK(gone, m, cache'[m])
  PROVE  SInv' /\ AnswerStep
<1>0. TypeOK
  BY DEF SInv
<1> DEFINE m == call[c].who
<1>1. m \in Member
  BY <1>0, Busy
<1>2. /\ call' \in [Call -> Calling] /\ call'[c] = NoCall
      /\ \A o \in Call \ {c} : call'[o] = call[o]
      /\ UNCHANGED <<rights, edit, clearing, gone>>
  BY <1>0, Constants DEF End, TypeOK, NoCall, Calling, Stage, Age
<1>3. ASSUME NEW o \in Call
      PROVE  /\ call'[o].at = "idle" <=> call'[o].who = None
             /\ call'[o].at = "answer" <=> call'[o].token # None
             /\ call'[o].took <= Patience
  <2>1. CASE o = c
    BY <1>2, <2>1, Constants DEF NoCall
  <2>2. CASE o # c
    BY <1>0, <1>2, <2>2 DEF TypeOK
  <2> QED
    BY <2>1, <2>2
<1>4. /\ page' \in [Member -> Layout]
      /\ page'[m].token \in {page[m].token, t}
      /\ page'[m].token = t => t # None \/ page[m].token = None
      /\ \A n \in Member \ {m} : page'[n] = page[n]
  <2>1. CASE call[c].via = "gone"
    BY <1>0, <1>1, <2>1 DEF End, Receive, TypeOK, Layout
  <2>2. CASE call[c].via # "gone"
    <3> DEFINE l == [synced |-> page[m].synced \/ call[c].via = "init",
                     error |-> IF e = "disabled" \/ (call[c].via = "init" /\ e # None)
                               THEN e ELSE page[m].error,
                     token |-> IF t # None THEN t ELSE page[m].token]
    <3>1. page[m] \in Layout
      BY <1>0, <1>1 DEF TypeOK
    <3>2. l \in Layout /\ l.token = IF t # None THEN t ELSE page[m].token
      BY <3>1 DEF Layout
    <3>3. page' = [page EXCEPT ![m] = l]
      BY <2>2 DEF End, Receive
    <3> HIDE DEF l
    <3> QED
      BY <1>0, <1>1, <3>2, <3>3 DEF TypeOK
  <2> QED
    BY <2>1, <2>2
<1>5. TypeOK'
  BY <1>0, <1>2, <1>3, <1>4 DEF TypeOK, rights
<1>6. \A n \in Member : TokenOK(gone, n, page'[n].token)
  BY <1>4 DEF SInv
<1>7. CallOK(gone, call'[c])
  BY <1>2 DEF CallOK, NoCall
<1>8. ASSUME NEW n \in Member, page'[n].token # None, page'[n].token # page[n].token,
             NEW p \in page'[n].token.perms
      PROVE  Recent(n, p, TTL + 2 * Patience)
  <2>1. n = m /\ page'[n].token = t /\ t # None
    BY <1>4, <1>8
  <2> QED
    BY <1>8, <2>1 DEF Backed, Within, ByRole, Recent
<1>9. AnswerStep
  BY <1>8 DEF AnswerStep
<1> QED
  BY <1>2, <1>5, <1>6, <1>7, <1>9, OneCall DEF rights

\* A call ends with an error: nothing is granted.
LEMMA Refusal ==
  ASSUME SInv, NEW c \in Call, call[c].at # "idle", NEW e \in {"disabled", "failed"},
         End(c, None, e), UNCHANGED cache, trouble' \in Nat
  PROVE  SInv' /\ AnswerStep
<1>1. /\ TokenOK(gone, call[c].who, None)
      /\ cache' \in [Member -> Answer \cup {None}]
      /\ \A m \in Member : AnswerOK(gone, m, cache'[m])
  BY DEF SInv, TypeOK, TokenOK
<1> QED
  BY <1>1, EndStep

LEMMA Refused ==
  ASSUME SInv, NEW c \in Call, call[c].at # "idle", NEW e \in {"disabled", "failed"},
         End(c, None, e), UNCHANGED <<cache, trouble>>
  PROVE  SInv' /\ AnswerStep
<1>1. trouble' \in Nat
  BY DEF SInv, TypeOK
<1> QED
  BY <1>1, Refusal

\* A call goes on, and what it has in hand is as recent as it has to be.
LEMMA GoOn ==
  ASSUME SInv, NEW c \in Call, NEW q \in Calling, call' = [call EXCEPT ![c] = q],
         q.at # "idle", call[c].at # "idle", q.who = call[c].who, q.took = call[c].took,
         q.at = "answer" <=> q.token # None, CallOK(gone, q),
         UNCHANGED <<rights, edit, clearing, cache, page, gone>>, trouble' \in Nat
  PROVE  SInv' /\ AnswerStep
<1>0. TypeOK
  BY DEF SInv
<1>1. /\ call' \in [Call -> Calling] /\ call'[c] = q
      /\ \A o \in Call \ {c} : call'[o] = call[o]
  BY <1>0 DEF TypeOK
<1>2. q.who \in Member /\ q.who # None /\ q.took <= Patience
  BY <1>0, Busy, NoneAssumption
<1>3. ASSUME NEW o \in Call
      PROVE  /\ call'[o].at = "idle" <=> call'[o].who = None
             /\ call'[o].at = "answer" <=> call'[o].token # None
             /\ call'[o].took <= Patience
  <2>1. CASE o = c
    BY <1>1, <1>2, <2>1
  <2>2. CASE o # c
    BY <1>0, <1>1, <2>2 DEF TypeOK
  <2> QED
    BY <2>1, <2>2
<1>4. TypeOK'
  BY <1>0, <1>1, <1>3 DEF TypeOK, rights
<1>5. \A n \in Member : TokenOK(gone, n, page'[n].token) /\ AnswerOK(gone, n, cache'[n])
  BY DEF SInv
<1>6. AnswerStep
  BY DEF AnswerStep
<1> QED
  BY <1>1, <1>4, <1>5, <1>6, OneCall DEF rights

LEMMA GotoStep ==
  ASSUME SInv, NEW c \in Call, call[c].at \notin {"idle", "answer"},
         NEW stage \in Stage \ {"idle", "answer"}, Goto(c, stage), Untouched
  PROVE  SInv' /\ AnswerStep
<1>0. TypeOK /\ call[c] \in Calling /\ call[c].token = None
  BY DEF SInv, TypeOK
<1> DEFINE q == [call[c] EXCEPT !.at = stage]
<1>1. call' = [call EXCEPT ![c] = q] /\ trouble' \in Nat
  BY <1>0 DEF Goto, Untouched, TypeOK
<1>2. /\ q \in Calling /\ q.at = stage /\ q.who = call[c].who /\ q.took = call[c].took
      /\ q.roles = call[c].roles /\ q.got = call[c].got /\ q.token = None
  BY <1>0 DEF Calling
<1> HIDE DEF q
<1>3. CallOK(gone, q)
  BY <1>0, <1>2 DEF SInv, CallOK, TokenOK
<1> QED
  BY <1>1, <1>2, <1>3, GoOn DEF Untouched

-----------------------------------------------------------------------------
(* The statements of a call.                                               *)

LEMMA LookupStep ==
  ASSUME SInv, NEW c \in Call, Lookup(c)
  PROVE  SInv' /\ AnswerStep
<1>0. TypeOK /\ call[c].at = "user"
  BY DEF SInv, Lookup
<1> DEFINE m == call[c].who
           a == cache[m]
<1>1. m \in Member /\ call[c].took \in Nat /\ call[c].took <= Patience /\ gone \in Histories
  BY <1>0, Busy
<1>2. CASE a # None /\ Fresh(a, call[c].took)
  <2>1. End(c, a.token, None) /\ UNCHANGED <<cache, trouble>>
    BY <1>2 DEF Lookup
  <2>2. a \in Answer /\ a.token \in Token /\ a.token.perms \in SUBSET Perm /\ a.age \in Nat
    BY <1>0, <1>1, <1>2, Constants DEF TypeOK, Answer, Token, Age
  <2>3. TokenOK(gone, m, a.token) /\ Backed(gone, m, a.token.perms, a.age + Patience)
    BY <1>1, <1>2 DEF SInv, AnswerOK
  <2>4. a.age + Patience <= TTL + 2 * Patience
    BY <1>1, <1>2, <2>2, Constants DEF Fresh
  <2>5. Backed(gone, m, a.token.perms, TTL + 2 * Patience)
    BY <1>1, <2>2, <2>3, <2>4, Longer, Constants
  <2>6. /\ trouble' \in Nat /\ cache' \in [Member -> Answer \cup {None}]
        /\ \A n \in Member : AnswerOK(gone, n, cache'[n])
    BY <1>0, <2>1 DEF SInv, TypeOK
  <2> QED
    BY <1>0, <2>1, <2>2, <2>3, <2>5, <2>6, EndStep
<1>3. CASE ~(a # None /\ Fresh(a, call[c].took))
  <2>1. Goto(c, "guild") /\ Untouched
    BY <1>3 DEF Lookup
  <2> QED
    BY <1>0, <2>1, GotoStep DEF Stage
<1> QED
  BY <1>2, <1>3

\* The roles that a call has read were there a moment ago.
LEMMA ReadGuildStep ==
  ASSUME SInv, NEW c \in Call, ReadGuild(c)
  PROVE  SInv' /\ AnswerStep
<1>0. TypeOK /\ call[c].at = "guild" /\ call[c] \in Calling /\ call[c].token = None
  BY DEF SInv, ReadGuild, TypeOK
<1> DEFINE m == call[c].who
           q == [call[c] EXCEPT !.at = "account", !.roles = guild[m]]
<1>1. m \in Member /\ guild[m] \in SUBSET Role /\ call[c].took \in Nat
  BY <1>0, Busy DEF TypeOK
<1>2. CASE inGuild[m]
  <2>1. call' = [call EXCEPT ![c] = q] /\ Untouched
    BY <1>2 DEF ReadGuild
  <2>2. /\ q \in Calling /\ q.at = "account" /\ q.who = m /\ q.took = call[c].took
        /\ q.roles = guild[m] /\ q.got = call[c].got /\ q.token = None
    BY <1>0, <1>1 DEF Calling, Stage
  <2> HIDE DEF q
  <2>3. \A r \in q.roles : gone.role[m][r] <= q.took
    BY <1>1, <2>2 DEF SInv, PresentOK
  <2>4. CallOK(gone, q)
    BY <1>0, <2>2, <2>3 DEF SInv, CallOK, TokenOK
  <2>5. trouble' \in Nat
    BY <1>0, <2>1 DEF Untouched, TypeOK
  <2> QED
    BY <1>0, <2>1, <2>2, <2>4, <2>5, GoOn DEF Untouched
<1>3. CASE ~inGuild[m]
  BY <1>0, <1>3, Refused DEF ReadGuild
<1> QED
  BY <1>2, <1>3

LEMMA GuildDeniedStep ==
  ASSUME SInv, NEW c \in Call, GuildDenied(c)
  PROVE  SInv' /\ AnswerStep
<1>0. TypeOK /\ call[c].at = "guild" /\ call[c] \in Calling /\ call[c].token = None
  BY DEF SInv, GuildDenied, TypeOK
<1> DEFINE q == [call[c] EXCEPT !.at = "account", !.roles = {}]
<1>1. call' = [call EXCEPT ![c] = q] /\ trouble' \in Nat
  <2>1. trouble \in Nat /\ trouble' = trouble + 1
    BY <1>0 DEF GuildDenied, Troubled, TypeOK
  <2>2. call' = [call EXCEPT ![c] = q]
    BY DEF GuildDenied
  <2> QED
    BY <2>1, <2>2
<1>2. /\ q \in Calling /\ q.at = "account" /\ q.who = call[c].who /\ q.took = call[c].took
      /\ q.roles = {} /\ q.got = call[c].got /\ q.token = None
  BY <1>0 DEF Calling, Stage
<1> HIDE DEF q
<1>3. CallOK(gone, q)
  BY <1>0, <1>2 DEF SInv, CallOK, TokenOK
<1> QED
  BY <1>0, <1>1, <1>2, <1>3, GoOn DEF GuildDenied

LEMMA ReadAccountStep ==
  ASSUME SInv, NEW c \in Call, ReadAccount(c)
  PROVE  SInv' /\ AnswerStep
<1>0. call[c].at = "account"
  BY DEF ReadAccount
<1>1. CASE disabled[call[c].who]
  BY <1>0, <1>1, Refused DEF ReadAccount
<1>2. CASE ~disabled[call[c].who]
  BY <1>0, <1>2, GotoStep DEF ReadAccount, Stage
<1> QED
  BY <1>1, <1>2

\* The permissions of those roles are read later, but were there a moment ago.
LEMMA ReadRolesStep ==
  ASSUME SInv, NEW c \in Call, ReadRoles(c)
  PROVE  SInv' /\ AnswerStep
<1>0. TypeOK /\ call[c].at = "roles" /\ call[c] \in Calling /\ call[c].token = None
  BY DEF SInv, ReadRoles, TypeOK
<1> DEFINE m == call[c].who
           G == UNION {grants[r] : r \in call[c].roles}
           q == [call[c] EXCEPT !.at = "rows", !.got = G]
<1>1. m \in Member /\ call[c].took \in Nat /\ call[c].roles \in SUBSET Role
  BY <1>0, Busy
<1>2. call' = [call EXCEPT ![c] = q] /\ trouble' \in Nat
  <2>1. call' = [call EXCEPT ![c] = q]
    BY Zenon DEF ReadRoles
  <2>2. trouble' = trouble
    BY DEF ReadRoles, Untouched
  <2> QED
    BY <1>0, <2>1, <2>2 DEF TypeOK
<1>3. G \in SUBSET Perm
  BY <1>0, <1>1 DEF TypeOK
<1>4. ASSUME NEW p \in G  PROVE ByRole(gone, m, p, call[c].took)
  <2>1. PICK r \in call[c].roles : p \in grants[r]
    OBVIOUS
  <2>2. gone.role[m][r] <= call[c].took /\ gone.grant[r][p] = 0
    BY <1>0, <1>1, <2>1 DEF SInv, CallOK, PresentOK
  <2> QED
    BY <1>1, <2>2 DEF ByRole
<1> HIDE DEF G
<1>5. /\ q \in Calling /\ q.at = "rows" /\ q.who = m /\ q.took = call[c].took
      /\ q.roles = call[c].roles /\ q.got = G /\ q.token = None
  BY <1>0, <1>3 DEF Calling, Stage
<1> HIDE DEF q
<1>6. CallOK(gone, q)
  BY <1>0, <1>4, <1>5 DEF SInv, CallOK, TokenOK
<1> QED
  BY <1>0, <1>2, <1>5, <1>6, GoOn DEF ReadRoles, Untouched

\* The token holds what the call has read, and the extra permissions of this moment.
LEMMA MintStep ==
  ASSUME SInv, NEW c \in Call, Mint(c)
  PROVE  SInv' /\ AnswerStep
<1>0. TypeOK /\ call[c].at = "extras" /\ call[c] \in Calling
  BY DEF SInv, Mint, TypeOK
<1> DEFINE m == call[c].who
           t == [perms |-> call[c].got \cup extra[m], age |-> 0]
           q == [call[c] EXCEPT !.at = "answer", !.token = t]
<1>1. /\ m \in Member /\ call[c].got \in SUBSET Perm /\ extra[m] \in SUBSET Perm
      /\ call[c].took \in Nat /\ call[c].took <= Patience /\ gone \in Histories
  BY <1>0, Busy DEF TypeOK
<1>2. call' = [call EXCEPT ![c] = q] /\ trouble' \in Nat
  BY <1>0 DEF Mint, Untouched, TypeOK
<1>3. t \in Token /\ t.perms = call[c].got \cup extra[m] /\ t.perms \in SUBSET Perm /\ t.age = 0
  BY <1>1, Constants DEF Token, Age
<1> HIDE DEF t
<1>4. Backed(gone, m, t.perms, call[c].took)
  <2>1. ASSUME NEW p \in call[c].got  PROVE Within(gone, m, p, call[c].took)
    BY <1>0, <2>1 DEF SInv, CallOK, Within
  <2>2. ASSUME NEW p \in extra[m]  PROVE Within(gone, m, p, call[c].took)
    BY <1>1, <2>2 DEF SInv, PresentOK, Within
  <2> QED
    BY <1>3, <2>1, <2>2 DEF Backed
<1>5. Backed(gone, m, t.perms, t.age + Patience)
  BY <1>1, <1>3, <1>4, Longer, Constants
<1>6. /\ q \in Calling /\ q.at = "answer" /\ q.who = m /\ q.took = call[c].took
      /\ q.roles = call[c].roles /\ q.got = call[c].got /\ q.token = t
  BY <1>0, <1>3 DEF Calling, Stage
<1> HIDE DEF q
<1>7. CallOK(gone, q)
  BY <1>0, <1>4, <1>5, <1>6 DEF SInv, CallOK, TokenOK
<1> QED
  BY <1>0, <1>2, <1>3, <1>6, <1>7, GoOn, NoneAssumption DEF Mint, Untouched

\* The answer is cached and sent, however long ago it was put together: no call takes longer
\* than Patience.
LEMMA ReplyStep ==
  ASSUME SInv, NEW c \in Call, Reply(c)
  PROVE  SInv' /\ AnswerStep
<1>0. TypeOK /\ call[c].at = "answer" /\ call[c].token # None
  BY DEF SInv, Reply, TypeOK
<1> DEFINE m == call[c].who
           t == call[c].token
           a == [token |-> t, age |-> 0]
<1>1. /\ m \in Member /\ t \in Token /\ t.perms \in SUBSET Perm /\ gone \in Histories
      /\ call[c].took \in Nat /\ call[c].took <= Patience
  BY <1>0, Busy DEF Token
<1>2. TokenOK(gone, m, t) /\ Backed(gone, m, t.perms, call[c].took)
  BY <1>0 DEF SInv, CallOK
<1>3. Backed(gone, m, t.perms, 0 + Patience) /\ Backed(gone, m, t.perms, TTL + 2 * Patience)
  <2>1. /\ 0 + Patience \in Nat /\ TTL + 2 * Patience \in Nat
        /\ call[c].took <= 0 + Patience /\ call[c].took <= TTL + 2 * Patience
    BY <1>1, Constants
  <2> QED
    BY <1>1, <1>2, <2>1, Longer
<1>4. a \in Answer /\ a.token = t /\ a.age = 0
  BY <1>1, Constants DEF Answer, Age
<1>5. cache' = [cache EXCEPT ![m] = a] /\ End(c, t, None) /\ trouble' \in Nat
  BY <1>0 DEF Reply, TypeOK
<1> HIDE DEF a, t, m
<1>6. AnswerOK(gone, m, a)
  BY <1>2, <1>3, <1>4 DEF AnswerOK
<1>7. /\ cache' \in [Member -> Answer \cup {None}]
      /\ \A n \in Member : AnswerOK(gone, n, cache'[n])
  BY <1>0, <1>1, <1>4, <1>5, <1>6 DEF SInv, TypeOK
<1> QED
  BY <1>0, <1>1, <1>2, <1>3, <1>5, <1>7, EndStep DEF t, m

LEMMA SyncFailsStep ==
  ASSUME SInv, NEW c \in Call, SyncFails(c)
  PROVE  SInv' /\ AnswerStep
<1>1. TypeOK /\ trouble' \in Nat
  BY DEF SInv, SyncFails, Troubled, TypeOK
<1> QED
  BY <1>1, Refusal DEF SyncFails

LEMMA ProgressStep ==
  ASSUME SInv, NEW c \in Call, Progress(c)
  PROVE  SInv' /\ AnswerStep
<1>1. CASE WriteRows(c)
  BY <1>1, GotoStep DEF WriteRows, Stage
<1> QED
  BY <1>1, LookupStep, ReadGuildStep, ReadAccountStep, ReadRolesStep, MintStep, ReplyStep DEF Progress

-----------------------------------------------------------------------------
(* The layout.                                                             *)

\* What the layout does by itself: it begins calls, or forgets what it has.
LEMMA LayoutStep ==
  ASSUME SInv, NEW m \in Member,
         Load(m) \/ SessionChanged(m) \/ Poll(m) \/ Retry(m) \/ Reload(m)
  PROVE  SInv' /\ AnswerStep
<1>0. TypeOK /\ trouble \in Nat /\ gone \in Histories
  BY DEF SInv, TypeOK, Histories
<1>1. CASE Load(m) \/ SessionChanged(m) \/ Poll(m)
  <2>1. trouble' \in Nat
    BY <1>0, <1>1 DEF Load, SessionChanged, Poll, Calm, Troubled
  <2>2. PICK c \in Call, via \in {"init", "poll"} : Begin(c, m, via)
    BY <1>1 DEF Load, SessionChanged, Poll
  <2> QED
    BY <2>1, <2>2, BeginStep
<1>2. Drifts(gone, gone, 0)
  BY <1>0, HistoryTypes, Constants DEF Drifts, Age
<1>3. \A t \in Token \cup {None} : Kept(t, t, 0)
  BY Constants DEF Kept, Reaches, Token, Age
<1>4. CASE Retry(m)
  <2>1. /\ trouble' \in Nat /\ UNCHANGED <<rights, edit, clearing, cache, call, gone>>
        /\ page' = [page EXCEPT ![m].synced = FALSE, ![m].error = None]
    BY <1>0, <1>4 DEF Retry, Troubled
  <2> DEFINE l == [page[m] EXCEPT !.synced = FALSE, !.error = None]
  <2>2. page[m] \in Layout /\ page' = [page EXCEPT ![m] = l]
    BY <1>0, <2>1 DEF TypeOK
  <2>3. l \in Layout /\ l.token = page[m].token
    BY <2>2 DEF Layout
  <2> HIDE DEF l
  <2>4. page' \in [Member -> Layout] /\ \A n \in Member : page'[n].token = page[n].token
    BY <1>0, <2>2, <2>3 DEF TypeOK
  <2>5. TypeOK'
    BY <1>0, <2>1, <2>4 DEF TypeOK, rights
  <2>6. \A n \in Member : TokenOK(gone, n, page'[n].token)
    BY <2>4 DEF SInv
  <2> QED
    BY <2>1, <2>4, <2>5, <2>6 DEF SInv, PresentOK, AnswerStep, rights
<1>5. CASE Reload(m)
  <2>1. /\ trouble' \in Nat /\ UNCHANGED <<rights, edit, clearing, cache, gone>>
        /\ page' = [page EXCEPT ![m] = Mounted]
        /\ call' = [c \in Call |-> IF call[c].who = m THEN [call[c] EXCEPT !.via = "gone"]
                                                      ELSE call[c]]
    BY <1>0, <1>5 DEF Reload, Troubled
  <2>2. page' \in [Member -> Layout] /\ \A n \in Member : page'[n].token \in {None, page[n].token}
    BY <1>0, <2>1 DEF TypeOK, Layout, Mounted
  <2>3. ASSUME NEW c \in Call
        PROVE  /\ call'[c] \in Calling /\ call'[c].at = call[c].at /\ call'[c].who = call[c].who
               /\ call'[c].took = call[c].took /\ call'[c].roles = call[c].roles
               /\ call'[c].got = call[c].got /\ call'[c].token = call[c].token
    <3>1. call[c] \in Calling
      BY <1>0 DEF TypeOK
    <3>2. call'[c] = call[c] \/ call'[c] = [call[c] EXCEPT !.via = "gone"]
      BY <2>1
    <3> QED
      BY <3>1, <3>2 DEF Calling
  <2>4. call' \in [Call -> Calling]
    BY <2>1, <2>3
  <2>5. TypeOK'
    BY <1>0, <2>1, <2>2, <2>3, <2>4 DEF TypeOK, rights
  <2>6. \A n \in Member : TokenOK(gone, n, page'[n].token)
    BY <2>2 DEF SInv, TokenOK
  <2>7. \A c \in Call : CallOK(gone, call'[c])
    BY <2>3 DEF SInv, CallOK
  <2> QED
    BY <2>1, <2>2, <2>5, <2>6, <2>7 DEF SInv, PresentOK, AnswerStep, rights
<1> QED
  BY <1>1, <1>4, <1>5

-----------------------------------------------------------------------------
(* The theorems.                                                           *)

LEMMA SInvInit == Init => SInv
<1> SUFFICES ASSUME Init  PROVE SInv
  OBVIOUS
<1>1. 0 \in Age /\ Cap \in Age
  BY Constants DEF Age
<1>2. TypeOK
  <2>1. NoCall \in Calling /\ NoCall.at = "idle" /\ NoCall.who = None /\ NoCall.token = None
        /\ NoCall.took <= Patience
    BY Constants DEF NoCall, Calling, Stage, Age
  <2>2. Mounted \in Layout
    BY DEF Mounted, Layout
  <2> QED
    BY <1>1, <2>1, <2>2 DEF Init, TypeOK
<1>3. PresentOK
  BY DEF Init, PresentOK
<1>4. \A m \in Member : TokenOK(gone, m, page[m].token) /\ AnswerOK(gone, m, cache[m])
  BY DEF Init, TokenOK, AnswerOK, Mounted
<1>5. \A c \in Call : CallOK(gone, call[c])
  BY DEF Init, CallOK, NoCall
<1> QED
  BY <1>2, <1>3, <1>4, <1>5 DEF SInv

LEMMA SInvStep == SInv /\ [Next]_vars => SInv' /\ [AnswerStep]_vars
<1> SUFFICES ASSUME SInv, [Next]_vars  PROVE SInv' /\ [AnswerStep]_vars
  OBVIOUS
<1>1. CASE UNCHANGED vars
  BY <1>1 DEF vars, rights, SInv, TypeOK, PresentOK
<1>2. ASSUME NEW c \in Call, Progress(c) \/ SyncFails(c) \/ GuildDenied(c)
      PROVE  SInv' /\ AnswerStep
  BY <1>2, ProgressStep, SyncFailsStep, GuildDeniedStep
<1>3. ASSUME NEW m \in Member, Load(m) \/ SessionChanged(m) \/ Poll(m) \/ Retry(m) \/ Reload(m)
      PROVE  SInv' /\ AnswerStep
  BY <1>3, LayoutStep
<1>4. CASE Staff \/ StaffContinues \/ Tick
  BY <1>4, StaffStep, StaffContinuesStep, TickStep
<1> QED
  BY <1>1, <1>2, <1>3, <1>4 DEF Next

\* The state of sign-ins, of the cache and of the pages stays well formed, whatever calls,
\* changes of rights and edits of roles overlap: an account at work is always somebody's, and
\* only an answer carries a JWT.
THEOREM SessionsTypeCorrect == Safety => []TypeOK
<1>1. SInv => TypeOK
  BY DEF SInv
<1> QED
  BY SInvInit, SInvStep, <1>1, PTL DEF Safety

\* For any number of members, roles and calls, and any cache time, life and patience: what a
\* page may do by its JWT was granted within the life of a JWT and one call, though a
\* permission passes through a call, the cache and the token, and may be taken away between
\* any two of them.
THEOREM SessionsExpire == Safety => []RightsExpire
<1>1. SInv => RightsExpire
  <2> SUFFICES ASSUME SInv, NEW m \in Member, page[m].token # None, page[m].token.age < Life,
                      NEW p \in page[m].token.perms
               PROVE  Recent(m, p, Life + Patience)
    BY DEF RightsExpire
  <2> DEFINE t == page[m].token
  <2>1. t \in Token /\ t.perms \in SUBSET Perm /\ t.age \in Nat /\ gone \in Histories
    BY Constants DEF SInv, TypeOK, Layout, Token, Age, Histories
  <2>2. Backed(gone, m, t.perms, t.age + Patience)
    BY DEF SInv, TokenOK
  <2>3. /\ t.age + Patience \in Nat /\ Life + Patience \in Nat
        /\ t.age + Patience <= Life + Patience
    BY <2>1, Constants
  <2>4. Backed(gone, m, t.perms, Life + Patience)
    BY <2>1, <2>2, <2>3, Longer
  <2> QED
    BY <2>4 DEF Backed, Within, ByRole, Recent
<1> QED
  BY SInvInit, SInvStep, <1>1, PTL DEF Safety

\* What POST /auth/sync answers, fresh or from the cache, is as recent as the cache's time and
\* two calls allow: clearing an entry before an overlapping call fills it adds nothing to that.
THEOREM SyncAnswersAreRecent == Safety => AnswersAreRecent
<1>1. SInv /\ [Next]_vars => SInv' /\ [AnswerStep]_vars
  BY SInvStep
<1> QED
  BY SInvInit, <1>1, PTL DEF Safety, AnswersAreRecent, AnswerStep

-----------------------------------------------------------------------------
(* The roster.  A page shows what was last sent to it, and what is sent is    *)
(* what the sockets' data say; these, in turn, what the pages have said.      *)

Rosters == [User -> Path \cup {None}]
Messages == [say : {"path"}, is : Path] \cup [say : {"hide"}, is : BOOLEAN] \cup [say : {"close"}]
SocketData == [path : Path \cup {None}, hidden : BOOLEAN]
SocketType == [at : {"gone", "dialing", "up"}, data : SocketData, toApi : Seq(Messages),
               accepted : BOOLEAN, news : Rosters \cup {None}]

\* Every variable has the type its declaration states.
RosterTypeOK ==
  /\ path \in [User -> Path] /\ hide \in [User -> BOOLEAN] /\ given \in [User -> Path]
  /\ current \in [User -> {0, 1, 2}] /\ opened \in [User -> BOOLEAN]
  /\ roster \in [User -> Rosters]
  /\ socket \in [Online!Sockets -> SocketType] /\ clients \in Seq(Online!Sockets)
  /\ missed \in [User -> SUBSET {"path", "hide"}]

\* The socket user u's page holds.
Mine(u) == <<u, current[u]>>

\* The clients are the sockets that are up, each once.
ClientsOK ==
  /\ \A s \in Online!Sockets : socket[s].at = "up" <=> \E i \in 1 .. Len(clients) : clients[i] = s
  /\ \A i, j \in 1 .. Len(clients) : clients[i] = clients[j] => i = j

\* A socket a page has let go of is gone, or the last that it will tell the api is its end.
Leaving(r) == r = Online!Gone \/ (r.toApi # <<>> /\ r.toApi[Len(r.toApi)].say = "close")

\* Of matter x ("path" or "hide"), the last word of queue q is v; q has no word.
LastWord(q, x, v) ==
  \E i \in 1 .. Len(q) :
    /\ q[i].say = x /\ q[i].is = v
    /\ \A j \in 1 .. Len(q) : i < j => q[j].say # x
NoWord(q, x) == \A i \in 1 .. Len(q) : q[i].say # x

\* When all that page u has said has come to the api, the data say what the page does,
\* unless it has missed to say it.
PathTold(r, p) == LastWord(r.toApi, "path", p) \/ (NoWord(r.toApi, "path") /\ r.data.path = p)
HideTold(r, u, h) ==
  \/ LastWord(r.toApi, "hide", h)
  \/ NoWord(r.toApi, "hide") /\ r.data.hidden = Online!Hidden(u, h)

PageOK(u, ss) ==
  /\ \A k \in {1, 2} : k # current[u] => Leaving(ss[<<u, k>>])
  /\ opened[u] => current[u] # 0
  /\ current[u] # 0 =>
       /\ ss[Mine(u)].at # "gone" /\ NoWord(ss[Mine(u)].toApi, "close")
       /\ "path" \notin missed[u] => PathTold(ss[Mine(u)], path[u])
       /\ "hide" \notin missed[u] => HideTold(ss[Mine(u)], u, hide[u])

\* The roster of the api is on its way to a page that is connected, or shown by it.
NewsOK(u) ==
  current[u] # 0 /\ socket[Mine(u)].at = "up" =>
    Online!Seen(clients, socket, u)
      = IF socket[Mine(u)].news = None THEN roster[u] ELSE socket[Mine(u)].news

\* The inductive invariant.
RInv == RosterTypeOK /\ ClientsOK /\ \A u \in User : PageOK(u, socket) /\ NewsOK(u)

-----------------------------------------------------------------------------
(* Lemmas on queues and clients.                                           *)

\* One more client.
LEMMA AppendClient ==
  ASSUME NEW S, NEW cs \in Seq(S), \A i, j \in 1 .. Len(cs) : cs[i] = cs[j] => i = j,
         NEW s \in S, \A i \in 1 .. Len(cs) : cs[i] # s
  PROVE  /\ Append(cs, s) \in Seq(S)
         /\ \A x : (\E i \in 1 .. Len(Append(cs, s)) : Append(cs, s)[i] = x)
                    <=> x = s \/ \E i \in 1 .. Len(cs) : cs[i] = x
         /\ \A i, j \in 1 .. Len(Append(cs, s)) : Append(cs, s)[i] = Append(cs, s)[j] => i = j
<1> DEFINE r == Append(cs, s)
<1>1. /\ r \in Seq(S) /\ Len(r) = Len(cs) + 1 /\ Len(cs) \in Nat /\ r[Len(cs) + 1] = s
      /\ \A i \in 1 .. Len(cs) : r[i] = cs[i]
  OBVIOUS
<1> HIDE DEF r
<1>2. \A i \in 1 .. Len(r) : i \in 1 .. Len(cs) \/ i = Len(cs) + 1
  BY <1>1
<1>3. 1 .. Len(cs) \subseteq 1 .. Len(r) /\ Len(cs) + 1 \in 1 .. Len(r)
  BY <1>1
<1>4. \A x : (\E i \in 1 .. Len(r) : r[i] = x) <=> x = s \/ \E i \in 1 .. Len(cs) : cs[i] = x
  BY <1>1, <1>2, <1>3
<1>5. \A i, j \in 1 .. Len(r) : r[i] = r[j] => i = j
  BY <1>1, <1>2
<1> QED
  BY <1>1, <1>4, <1>5 DEF r

\* One client less.
LEMMA WithoutClient ==
  ASSUME NEW S, NEW cs \in Seq(S), \A i, j \in 1 .. Len(cs) : cs[i] = cs[j] => i = j,
         NEW s, \E i \in 1 .. Len(cs) : cs[i] = s
  PROVE  LET r == Online!Without(cs, s)
         IN /\ r \in Seq(S)
            /\ \A x : (\E i \in 1 .. Len(r) : r[i] = x) <=> x # s /\ \E i \in 1 .. Len(cs) : cs[i] = x
            /\ \A i, j \in 1 .. Len(r) : r[i] = r[j] => i = j
<1> DEFINE n == Len(cs)
           r == Online!Without(cs, s)
           at == CHOOSE i \in DOMAIN cs : cs[i] = s
           Old(i) == IF i < at THEN i ELSE i + 1
<1>1. n \in Nat /\ DOMAIN cs = 1 .. n /\ \A i \in 1 .. n : cs[i] \in S
  OBVIOUS
<1>2. at \in 1 .. n /\ cs[at] = s
  BY <1>1
<1>3. r = [i \in 1 .. n - 1 |-> cs[Old(i)]]
  BY DEF Online!Without
<1> HIDE DEF at, n, r
<1>4. \A i \in 1 .. n - 1 : Old(i) \in 1 .. n /\ Old(i) # at
  BY <1>1, <1>2
<1>5. \A i, j \in 1 .. n - 1 : Old(i) = Old(j) => i = j
  BY <1>1, <1>2
<1>6. \A k \in 1 .. n : k # at => \E i \in 1 .. n - 1 : Old(i) = k
  <2> SUFFICES ASSUME NEW k \in 1 .. n, k # at  PROVE \E i \in 1 .. n - 1 : Old(i) = k
    OBVIOUS
  <2>1. CASE k < at
    <3>1. k \in 1 .. n - 1 /\ Old(k) = k
      BY <1>1, <1>2, <2>1
    <3> QED
      BY <3>1
  <2>2. CASE k > at
    <3>1. k - 1 \in 1 .. n - 1 /\ Old(k - 1) = k
      BY <1>1, <1>2, <2>2
    <3> QED
      BY <3>1
  <2> QED
    BY <1>1, <1>2, <2>1, <2>2
<1>7. n - 1 \in Nat
  BY <1>1, <1>2
<1>8. /\ r \in Seq(S) /\ Len(r) = n - 1 /\ \A i \in 1 .. n - 1 : r[i] = cs[Old(i)]
  BY <1>1, <1>3, <1>4, <1>7
<1>9. \A i, j \in 1 .. n : cs[i] = cs[j] => i = j
  BY DEF n
<1> HIDE DEF Old
<1>10. \A x : (\E i \in 1 .. n - 1 : r[i] = x) <=> x # s /\ \E i \in 1 .. n : cs[i] = x
  <2> SUFFICES ASSUME NEW x
      PROVE (\E i \in 1 .. n - 1 : r[i] = x) <=> x # s /\ \E i \in 1 .. n : cs[i] = x
    OBVIOUS
  <2>1. ASSUME NEW i \in 1 .. n - 1, r[i] = x  PROVE x # s /\ \E k \in 1 .. n : cs[k] = x
    BY <1>2, <1>4, <1>8, <1>9, <2>1
  <2>2. ASSUME x # s, NEW k \in 1 .. n, cs[k] = x  PROVE \E i \in 1 .. n - 1 : r[i] = x
    <3>1. PICK i \in 1 .. n - 1 : Old(i) = k
      BY <1>2, <1>6, <2>2
    <3> QED
      BY <1>8, <2>2, <3>1
  <2> QED
    BY <2>1, <2>2
<1>11. \A i, j \in 1 .. n - 1 : r[i] = r[j] => i = j
  BY <1>4, <1>5, <1>8, <1>9
<1> QED
  BY <1>8, <1>10, <1>11 DEF n, r

\* What one more message makes of the last word.
LEMMA AppendWord ==
  ASSUME NEW q \in Seq(Messages), NEW m \in Messages, NEW r, r = Append(q, m)
  PROVE  /\ r \in Seq(Messages) /\ r # <<>> /\ r[Len(r)] = m
         /\ \A x : m.say # x /\ NoWord(q, x) => NoWord(r, x)
         /\ \A x, v : m.say # x /\ LastWord(q, x, v) => LastWord(r, x, v)
         /\ \A x, v : m.say = x /\ m.is = v => LastWord(r, x, v)
<1>1. /\ r \in Seq(Messages) /\ Len(r) = Len(q) + 1 /\ Len(q) \in Nat /\ r[Len(q) + 1] = m
      /\ \A i \in 1 .. Len(q) : r[i] = q[i]
  OBVIOUS
<1>2. \A i \in 1 .. Len(r) : i \in 1 .. Len(q) \/ i = Len(q) + 1
  BY <1>1
<1>3. 1 .. Len(q) \subseteq 1 .. Len(r) /\ Len(q) + 1 \in 1 .. Len(r)
  BY <1>1
<1>4. r # <<>>
  BY <1>1
<1>5. \A x : m.say # x /\ NoWord(q, x) => NoWord(r, x)
  BY <1>1, <1>2 DEF NoWord
<1>6. ASSUME NEW x, NEW v, m.say # x, LastWord(q, x, v)  PROVE LastWord(r, x, v)
  <2>1. PICK i \in 1 .. Len(q) :
          q[i].say = x /\ q[i].is = v /\ \A j \in 1 .. Len(q) : i < j => q[j].say # x
    BY <1>6 DEF LastWord
  <2>2. i \in 1 .. Len(r) /\ r[i].say = x /\ r[i].is = v
    BY <1>1, <1>3, <2>1
  <2>3. \A j \in 1 .. Len(r) : i < j => r[j].say # x
    BY <1>1, <1>2, <1>6, <2>1
  <2> QED
    BY <2>2, <2>3 DEF LastWord
<1>7. ASSUME NEW x, NEW v, m.say = x, m.is = v  PROVE LastWord(r, x, v)
  <2>1. \A j \in 1 .. Len(r) : ~(Len(q) + 1 < j)
    BY <1>1
  <2> QED
    BY <1>1, <1>3, <1>7, <2>1 DEF LastWord
<1> QED
  BY <1>1, <1>4, <1>5, <1>6, <1>7

\* What the first message's going makes of it.
LEMMA TailWord ==
  ASSUME NEW q \in Seq(Messages), q # <<>>, NEW r, r = Tail(q), NEW m, m = Head(q)
  PROVE  /\ r \in Seq(Messages) /\ m \in Messages
         /\ \A x : NoWord(q, x) => NoWord(r, x) /\ m.say # x
         /\ \A x, v : LastWord(q, x, v) => LastWord(r, x, v) \/ (NoWord(r, x) /\ m.say = x /\ m.is = v)
         /\ q[Len(q)].say # m.say => r # <<>> /\ r[Len(r)] = q[Len(q)]
<1>1. /\ r \in Seq(Messages) /\ m \in Messages /\ Len(q) \in Nat /\ Len(q) > 0 /\ m = q[1]
      /\ Len(r) = Len(q) - 1
      /\ \A i \in 1 .. Len(r) : r[i] = q[i + 1]
  OBVIOUS
<1>2. \A i \in 1 .. Len(r) : i + 1 \in 1 .. Len(q)
  BY <1>1
<1>3. 1 \in 1 .. Len(q)
  BY <1>1
<1>4. \A x : NoWord(q, x) => NoWord(r, x) /\ m.say # x
  BY <1>1, <1>2, <1>3 DEF NoWord
<1>5. ASSUME NEW x, NEW v, LastWord(q, x, v)
      PROVE  LastWord(r, x, v) \/ (NoWord(r, x) /\ m.say = x /\ m.is = v)
  <2>1. PICK i \in 1 .. Len(q) :
          q[i].say = x /\ q[i].is = v /\ \A j \in 1 .. Len(q) : i < j => q[j].say # x
    BY <1>5 DEF LastWord
  <2>2. CASE i = 1
    <3>1. NoWord(r, x)
      BY <1>1, <1>2, <2>1, <2>2 DEF NoWord
    <3> QED
      BY <1>1, <2>1, <2>2, <3>1
  <2>3. CASE i > 1
    <3>1. i - 1 \in 1 .. Len(r) /\ (i - 1) + 1 = i
      BY <1>1, <2>3
    <3>2. r[i - 1] = q[i]
      BY <1>1, <3>1
    <3>3. \A j \in 1 .. Len(r) : i - 1 < j => j + 1 \in 1 .. Len(q) /\ i < j + 1
      BY <1>1
    <3>4. \A j \in 1 .. Len(r) : i - 1 < j => r[j].say # x
      BY <1>1, <2>1, <3>3
    <3> QED
      BY <2>1, <3>1, <3>2, <3>4 DEF LastWord
  <2> QED
    BY <2>2, <2>3
<1>6. ASSUME q[Len(q)].say # m.say  PROVE r # <<>> /\ r[Len(r)] = q[Len(q)]
  <2>1. Len(q) # 1
    BY <1>1, <1>6
  <2>2. Len(r) \in 1 .. Len(r) /\ Len(r) + 1 = Len(q)
    BY <1>1, <2>1
  <2>3. r[Len(r)] = q[Len(q)]
    BY <1>1, <2>2
  <2>4. r # <<>>
    <3>1. Len(<<>>) = 0
      OBVIOUS
    <3> QED
      BY <2>2, <3>1
  <2> QED
    BY <2>3, <2>4
<1> QED
  BY <1>1, <1>4, <1>5, <1>6

-----------------------------------------------------------------------------
(* The roster: steps of the pages.                                         *)

\* A page, a socket and a queue have the parts their types say.
LEMMA SocketParts ==
  ASSUME RosterTypeOK, NEW s \in Online!Sockets
  PROVE  /\ socket[s] \in SocketType /\ socket[s].data \in SocketData
         /\ socket[s].toApi \in Seq(Messages) /\ socket[s].accepted \in BOOLEAN
         /\ socket[s].news \in Rosters \cup {None}
<1>1. socket[s] \in SocketType
  BY DEF RosterTypeOK
<1> QED
  BY <1>1 DEF SocketType

\* A socket that is gone.
LEMMA GoneSocket ==
  /\ Online!Gone \in SocketType /\ Online!Gone.at = "gone" /\ Online!Gone.toApi = <<>>
  /\ Leaving(Online!Gone)
<1>1. <<>> \in Seq(Messages)
  OBVIOUS
<1> QED
  BY <1>1 DEF Online!Gone, SocketType, SocketData, Leaving

LEMMA UserSockets ==
  /\ \A u \in User, k \in {1, 2} : <<u, k>> \in Online!Sockets
  /\ \A s \in Online!Sockets : \E u \in User, k \in {1, 2} : s = <<u, k>>
  BY DEF Online!Sockets, Online!Slot

\* A set of positions has a last one.
LEMMA LastOne ==
  ASSUME NEW n \in Nat, NEW S, S \subseteq 1 .. n, S # {}
  PROVE  \E i \in S : \A j \in S : j <= i
<1> DEFINE T == {n - i : i \in S}
           R == OpToRel(<, Nat)
<1>1. T \subseteq Nat /\ T # {}
  <2>1. \A i \in S : n - i \in Nat
    OBVIOUS
  <2> QED
    BY <2>1
<1>2. IsWellFoundedOn(R, Nat)
  BY NatLessThanWellFounded
<1>3. \A x, y \in Nat : x < y => <<x, y>> \in R
  BY DEF OpToRel
<1> HIDE DEF R
<1>4. \E x \in T : \A y \in T : <<y, x>> \notin R
  <2> HIDE DEF T
  <2> QED
    BY <1>1, <1>2, WFMin
<1>5. PICK i \in S : \A y \in T : <<y, n - i>> \notin R
  BY <1>4
<1>6. ASSUME NEW j \in S  PROVE j <= i
  <2>1. n - j \in T /\ n - i \in T /\ n - j \in Nat /\ n - i \in Nat
    BY <1>1
  <2>2. ~(n - j < n - i)
    BY <1>3, <1>5, <2>1
  <2> QED
    BY <2>2
<1> QED
  BY <1>6

\* While the data of the clients stay, what a viewer sees of them stays.
LEMMA SameSeen ==
  ASSUME NEW cs \in Seq(Online!Sockets), NEW ss, NEW tt,
         \A i \in 1 .. Len(cs) : ss[cs[i]].data = tt[cs[i]].data, NEW v
  PROVE  Online!Seen(cs, ss, v) = Online!Seen(cs, tt, v)
<1> DEFINE Of(xx, u) == {i \in DOMAIN cs : cs[i][1] = u /\ (v \in Developers \/ ~xx[cs[i]].data.hidden)}
           At(xx, u) == IF Of(xx, u) = {} THEN None
                        ELSE xx[cs[CHOOSE i \in Of(xx, u) : \A j \in Of(xx, u) : j <= i]].data.path
<1>0. Len(cs) \in Nat /\ DOMAIN cs = 1 .. Len(cs)
  OBVIOUS
<1>1. \A u : Of(ss, u) = Of(tt, u) /\ Of(ss, u) \subseteq 1 .. Len(cs)
  BY <1>0
<1>2. ASSUME NEW u  PROVE At(ss, u) = At(tt, u)
  <2> DEFINE mine == Of(ss, u)
             top == CHOOSE i \in mine : \A j \in mine : j <= i
  <2>1. Of(tt, u) = mine /\ mine \subseteq 1 .. Len(cs)
    BY <1>1
  <2> HIDE DEF Of
  <2>2. CASE mine = {}
    BY <2>1, <2>2
  <2>3. CASE mine # {}
    <3>1. \E i \in mine : \A j \in mine : j <= i
      BY <1>0, <2>1, <2>3, LastOne
    <3>2. top \in mine
      BY <3>1
    <3>3. ss[cs[top]].data = tt[cs[top]].data
      BY <2>1, <3>2
    <3> QED
      BY <2>1, <2>3, <3>3
  <2> QED
    BY <2>2, <2>3
<1>3. Online!Seen(cs, ss, v) = [u \in User |-> At(ss, u)] /\ Online!Seen(cs, tt, v) = [u \in User |-> At(tt, u)]
  BY DEF Online!Seen
<1> HIDE DEF At
<1> QED
  BY <1>2, <1>3

\* What a viewer sees is a roster.
LEMMA SeenRoster ==
  ASSUME NEW cs \in Seq(Online!Sockets), NEW ss \in [Online!Sockets -> SocketType], NEW v
  PROVE  Online!Seen(cs, ss, v) \in Rosters
<1> SUFFICES ASSUME NEW u \in User
    PROVE LET mine == {i \in DOMAIN cs : cs[i][1] = u /\ (v \in Developers \/ ~ss[cs[i]].data.hidden)}
          IN mine = {} \/ ss[cs[CHOOSE i \in mine : \A j \in mine : j <= i]].data.path \in Path \cup {None}
  BY DEF Online!Seen, Rosters
<1> DEFINE mine == {i \in DOMAIN cs : cs[i][1] = u /\ (v \in Developers \/ ~ss[cs[i]].data.hidden)}
           top == CHOOSE i \in mine : \A j \in mine : j <= i
<1>1. Len(cs) \in Nat /\ mine \subseteq 1 .. Len(cs) /\ \A i \in 1 .. Len(cs) : cs[i] \in Online!Sockets
  OBVIOUS
<1> HIDE DEF mine
<1>2. ASSUME mine # {}  PROVE ss[cs[top]].data.path \in Path \cup {None}
  <2>1. \E i \in mine : \A j \in mine : j <= i
    BY <1>1, <1>2, LastOne
  <2>2. top \in mine
    BY <2>1
  <2>3. ss[cs[top]] \in SocketType
    BY <1>1, <2>2
  <2> QED
    BY <2>3 DEF SocketType, SocketData
<1> QED
  BY <1>2 DEF mine

\* A step of u's page: the clients and their data stay, and so do the others' pages.
LEMMA PageStep ==
  ASSUME RInv, RosterTypeOK', NEW u \in User, UNCHANGED clients,
         \A s \in Online!Sockets : (socket'[s].at = "up" <=> socket[s].at = "up"),
         \A s \in Online!Sockets : socket[s].at = "up" => socket'[s].data = socket[s].data,
         \A v \in User : v # u =>
           /\ path'[v] = path[v] /\ hide'[v] = hide[v] /\ current'[v] = current[v]
           /\ opened'[v] = opened[v] /\ roster'[v] = roster[v] /\ missed'[v] = missed[v]
           /\ \A k \in {1, 2} : socket'[<<v, k>>] = socket[<<v, k>>],
         PageOK(u, socket)',
         current'[u] # 0 /\ socket'[Mine(u)'].at = "up" =>
           /\ current'[u] = current[u] /\ roster'[u] = roster[u] /\ socket'[Mine(u)].news = socket[Mine(u)].news
           \/ Online!Seen(clients, socket, u) = IF socket'[Mine(u)'].news = None THEN roster'[u] ELSE socket'[Mine(u)'].news
  PROVE  RInv'
<1>1. ClientsOK'
  BY DEF RInv, ClientsOK
<1>2. clients \in Seq(Online!Sockets) /\ \A i \in 1 .. Len(clients) : clients[i] \in Online!Sockets
  BY DEF RInv, RosterTypeOK
<1>3. \A i \in 1 .. Len(clients) : socket[clients[i]].data = socket'[clients[i]].data
  BY <1>2 DEF RInv, ClientsOK
<1>4. \A v : Online!Seen(clients, socket, v) = Online!Seen(clients, socket', v)
  BY <1>2, <1>3, SameSeen
<1>5. ASSUME NEW v \in User, v # u  PROVE PageOK(v, socket)' /\ NewsOK(v)'
  <2>1. current[v] \in {0, 1, 2} /\ current'[v] = current[v]
    BY <1>5 DEF RInv, RosterTypeOK
  <2>2. current[v] # 0 => socket'[Mine(v)'] = socket[Mine(v)]
    <3>1. \A k \in {1, 2} : socket'[<<v, k>>] = socket[<<v, k>>]
      BY <1>5
    <3>2. Mine(v)' = <<v, current[v]>> /\ Mine(v) = <<v, current[v]>>
      BY <2>1 DEF Mine
    <3>3. current[v] # 0 => current[v] \in {1, 2}
      BY <2>1
    <3> QED
      BY <3>1, <3>2, <3>3
  <2>3. PageOK(v, socket) /\ NewsOK(v)
    BY DEF RInv
  <2>4. PageOK(v, socket)'
    BY <1>5, <2>1, <2>2, <2>3 DEF PageOK, PathTold, HideTold
  <2>5. NewsOK(v)'
    BY <1>4, <1>5, <2>1, <2>2, <2>3 DEF NewsOK
  <2> QED
    BY <2>4, <2>5
<1>6. NewsOK(u)'
  <2> SUFFICES ASSUME current'[u] # 0, socket'[Mine(u)'].at = "up"
      PROVE Online!Seen(clients, socket', u) = IF socket'[Mine(u)'].news = None THEN roster'[u] ELSE socket'[Mine(u)'].news
    BY DEF NewsOK
  <2>1. CASE /\ current'[u] = current[u] /\ roster'[u] = roster[u] /\ socket'[Mine(u)].news = socket[Mine(u)].news
    <3>1. Mine(u)' = Mine(u) /\ Mine(u) \in Online!Sockets
      BY <2>1, UserSockets DEF Mine, RInv, RosterTypeOK
    <3>2. current[u] # 0 /\ socket[Mine(u)].at = "up"
      BY <2>1, <3>1
    <3>3. NewsOK(u)
      BY DEF RInv
    <3> QED
      BY <1>4, <2>1, <3>1, <3>2, <3>3 DEF NewsOK
  <2> QED
    BY <1>4, <2>1
<1> QED
  BY <1>1, <1>5, <1>6 DEF RInv

\* u's page dials, having let go of all its sockets (tt).
LEMMA DialStep ==
  ASSUME RInv, NEW u \in User, NEW tt \in [Online!Sockets -> SocketType],
         \A v \in User \ {u}, k \in {1, 2} : tt[<<v, k>>] = socket[<<v, k>>],
         \A k \in {1, 2} : /\ tt[<<u, k>>].at = socket[<<u, k>>].at /\ tt[<<u, k>>].data = socket[<<u, k>>].data
                           /\ Leaving(tt[<<u, k>>]),
         NEW p \in Path, Online!Dialed(u, tt, p), UNCHANGED <<path, hide, roster, clients>>,
         given' \in [User -> Path], NEW gap \in SUBSET {"path", "hide"}, missed' = [missed EXCEPT ![u] = gap],
         "path" \notin gap => p = path[u]
  PROVE  RInv'
<1> DEFINE new == [Online!Gone EXCEPT !.at = "dialing",
                     !.data = [path |-> p, hidden |-> Online!Hidden(u, hide[u])]]
<1>1. PICK k \in {1, 2} :
        /\ tt[<<u, k>>] = Online!Gone /\ socket' = [tt EXCEPT ![<<u, k>>] = new]
        /\ current' = [current EXCEPT ![u] = k] /\ opened' = [opened EXCEPT ![u] = FALSE]
  BY DEF Online!Dialed, Online!Slot
<1>2. /\ hide[u] \in BOOLEAN /\ roster \in [User -> Rosters] /\ clients \in Seq(Online!Sockets)
      /\ current \in [User -> {0, 1, 2}] /\ opened \in [User -> BOOLEAN] /\ missed \in [User -> SUBSET {"path", "hide"}]
      /\ path \in [User -> Path] /\ hide \in [User -> BOOLEAN]
  BY DEF RInv, RosterTypeOK
<1>3. Online!Hidden(u, hide[u]) \in BOOLEAN
  BY <1>2 DEF Online!Hidden
<1>4. /\ new \in SocketType /\ new.at = "dialing" /\ new.toApi = <<>>
      /\ new.data.path = p /\ new.data.hidden = Online!Hidden(u, hide[u])
  <2>1. <<>> \in Seq(Messages)
    OBVIOUS
  <2> QED
    BY <1>3, <2>1 DEF Online!Gone, SocketType, SocketData
<1> HIDE DEF new
<1>5. /\ socket' \in [Online!Sockets -> SocketType] /\ socket'[<<u, k>>] = new
      /\ \A s \in Online!Sockets : s # <<u, k>> => socket'[s] = tt[s]
  BY <1>1, <1>4, UserSockets
<1>6. RosterTypeOK'
  BY <1>1, <1>2, <1>5 DEF RosterTypeOK
<1>7. ASSUME NEW v \in User, NEW j \in {1, 2}
      PROVE /\ socket'[<<v, j>>].at = "up" <=> socket[<<v, j>>].at = "up"
            /\ socket[<<v, j>>].at = "up" => socket'[<<v, j>>].data = socket[<<v, j>>].data
            /\ v # u => socket'[<<v, j>>] = socket[<<v, j>>]
  <2>1. CASE v # u
    BY <1>5, <2>1, UserSockets
  <2>2. CASE v = u /\ j = k
    <3>1. socket[<<v, j>>].at = "gone"
      BY <1>1, <2>2, GoneSocket
    <3> QED
      BY <1>4, <1>5, <2>2, <3>1
  <2>3. CASE v = u /\ j # k
    BY <1>5, <2>3, UserSockets
  <2> QED
    BY <2>1, <2>2, <2>3
<1>8. \A s \in Online!Sockets :
        /\ socket'[s].at = "up" <=> socket[s].at = "up"
        /\ socket[s].at = "up" => socket'[s].data = socket[s].data
  <2> SUFFICES ASSUME NEW s \in Online!Sockets
      PROVE /\ socket'[s].at = "up" <=> socket[s].at = "up"
            /\ socket[s].at = "up" => socket'[s].data = socket[s].data
    OBVIOUS
  <2>1. PICK v \in User, j \in {1, 2} : s = <<v, j>>
    BY UserSockets
  <2> QED
    BY <1>7, <2>1
<1>9. current'[u] = k /\ opened'[u] = FALSE /\ missed'[u] = gap
  BY <1>1, <1>2
<1>10. PageOK(u, socket)'
  <2>1. \A j \in {1, 2} : j # k => Leaving(socket'[<<u, j>>])
    BY <1>5, UserSockets
  <2>2. NoWord(<<>>, "close") /\ NoWord(<<>>, "path") /\ NoWord(<<>>, "hide")
    BY DEF NoWord
  <2>3. "path" \notin gap => PathTold(new, path[u])
    BY <1>4, <2>2 DEF PathTold
  <2>4. HideTold(new, u, hide[u])
    BY <1>4, <2>2 DEF HideTold
  <2>5. Mine(u)' = <<u, k>>
    BY <1>9 DEF Mine
  <2> QED
    BY <1>4, <1>5, <1>9, <2>1, <2>2, <2>3, <2>4, <2>5 DEF PageOK
<1>11. socket'[Mine(u)'].at # "up"
  BY <1>4, <1>5, <1>9 DEF Mine
<1>12. \A v \in User : v # u => /\ current'[v] = current[v] /\ opened'[v] = opened[v] /\ missed'[v] = missed[v]
  BY <1>1, <1>2
<1> QED
  BY <1>6, <1>7, <1>8, <1>10, <1>11, <1>12, PageStep

\* The sockets when u's page has let go of its own, having sent q.
LetGo(u, q) == [socket EXCEPT ![Mine(u)].toApi = q, ![Mine(u)].accepted = FALSE, ![Mine(u)].news = None]

\* A socket the page lets go of with a close at the end of its queue is leaving.
LEMMA LetGoLeaves ==
  ASSUME RosterTypeOK, NEW u \in User, current[u] # 0, NEW q \in Seq(Messages), q # <<>>, q[Len(q)].say = "close",
         NEW tt, tt = LetGo(u, q)
  PROVE  /\ tt \in [Online!Sockets -> SocketType]
         /\ \A s \in Online!Sockets : s # Mine(u) => tt[s] = socket[s]
         /\ tt[Mine(u)].at = socket[Mine(u)].at /\ tt[Mine(u)].data = socket[Mine(u)].data
         /\ Leaving(tt[Mine(u)]) /\ Mine(u) \in Online!Sockets
<1>1. Mine(u) \in Online!Sockets
  BY UserSockets DEF Mine, RosterTypeOK
<1> DEFINE new == [socket[Mine(u)] EXCEPT !.toApi = q, !.accepted = FALSE, !.news = None]
<1>2. socket \in [Online!Sockets -> SocketType] /\ socket[Mine(u)] \in SocketType
  BY <1>1 DEF RosterTypeOK
<1>3. tt = [socket EXCEPT ![Mine(u)] = new]
  BY <1>1, <1>2 DEF LetGo
<1>4. /\ new \in SocketType /\ new.at = socket[Mine(u)].at /\ new.data = socket[Mine(u)].data /\ new.toApi = q
  BY <1>2 DEF SocketType
<1> HIDE DEF new
<1>5. Leaving(new)
  BY <1>4 DEF Leaving
<1> QED
  BY <1>1, <1>2, <1>3, <1>4, <1>5

LEMMA RenewStep ==
  ASSUME RInv, NEW u \in User, Online!Renew(u)
  PROVE  RInv'
<1> DEFINE q == Append(socket[Mine(u)].toApi, Online!Closing)
           tt == IF current[u] = 0 THEN socket
                 ELSE [socket EXCEPT ![Mine(u)].toApi = q, ![Mine(u)].accepted = FALSE, ![Mine(u)].news = None]
<1>1. /\ given' = [given EXCEPT ![u] = path[u]] /\ missed' = [missed EXCEPT ![u] = {}]
      /\ UNCHANGED <<path, hide, roster, clients>>
  BY DEF Online!Renew
<1>2. Online!Dialed(u, tt, path[u])
  BY DEF Online!Renew, Mine
<1>3. path[u] \in Path /\ given \in [User -> Path] /\ socket \in [Online!Sockets -> SocketType] /\ current[u] \in {0, 1, 2}
  BY DEF RInv, RosterTypeOK
<1>4. given' \in [User -> Path]
  BY <1>1, <1>3
<1>5. PageOK(u, socket)
  BY DEF RInv
<1>6. /\ tt \in [Online!Sockets -> SocketType]
      /\ \A v \in User \ {u}, k \in {1, 2} : tt[<<v, k>>] = socket[<<v, k>>]
      /\ \A k \in {1, 2} : /\ tt[<<u, k>>].at = socket[<<u, k>>].at /\ tt[<<u, k>>].data = socket[<<u, k>>].data
                           /\ Leaving(tt[<<u, k>>])
  <2>1. CASE current[u] = 0
    BY <1>3, <1>5, <2>1 DEF PageOK
  <2>2. CASE current[u] # 0
    <3>1. Online!Closing \in Messages /\ Online!Closing.say = "close"
      BY DEF Online!Closing, Messages
    <3>2. socket[Mine(u)].toApi \in Seq(Messages)
      <4>1. current[u] \in {1, 2}
        BY <1>3, <2>2
      <4>2. Mine(u) \in Online!Sockets
        BY <4>1, UserSockets DEF Mine
      <4>3. RosterTypeOK
        BY DEF RInv
      <4> QED
        BY <4>2, <4>3, SocketParts
    <3>3. q \in Seq(Messages) /\ q # <<>> /\ q[Len(q)].say = "close"
      BY <3>1, <3>2, AppendWord
    <3> HIDE DEF q
    <3>4. tt = LetGo(u, q)
      BY <2>2 DEF LetGo
    <3> HIDE DEF tt
    <3>5. /\ tt \in [Online!Sockets -> SocketType]
          /\ \A s \in Online!Sockets : s # Mine(u) => tt[s] = socket[s]
          /\ tt[Mine(u)].at = socket[Mine(u)].at /\ tt[Mine(u)].data = socket[Mine(u)].data
          /\ Leaving(tt[Mine(u)])
      <4>1. RosterTypeOK
        BY DEF RInv
      <4> HIDE DEF RInv
      <4> QED
        BY <2>2, <3>3, <3>4, <4>1, LetGoLeaves
    <3>6. \A v \in User \ {u}, k \in {1, 2} : tt[<<v, k>>] = socket[<<v, k>>]
      BY <3>5, UserSockets DEF Mine
    <3>7. ASSUME NEW k \in {1, 2}
          PROVE /\ tt[<<u, k>>].at = socket[<<u, k>>].at /\ tt[<<u, k>>].data = socket[<<u, k>>].data
                /\ Leaving(tt[<<u, k>>])
      <4>1. CASE k = current[u]
        BY <3>5, <4>1 DEF Mine
      <4>2. CASE k # current[u]
        BY <1>5, <3>5, <4>2, UserSockets DEF Mine, PageOK
      <4> QED
        BY <4>1, <4>2
    <3> QED
      BY <3>5, <3>6, <3>7
  <2> QED
    BY <2>1, <2>2
<1> HIDE DEF tt
<1> QED
  BY <1>1, <1>2, <1>3, <1>4, <1>6, DialStep

LEMMA ReconnectStep ==
  ASSUME RInv, NEW u \in User, Online!Reconnect(u)
  PROVE  RInv'
<1> DEFINE gap == IF path[u] = given[u] THEN {} ELSE {"path"}
<1>1. /\ current[u] = 0 /\ Online!Dialed(u, socket, given[u]) /\ missed' = [missed EXCEPT ![u] = gap]
      /\ UNCHANGED <<path, hide, given, roster, clients>>
  BY DEF Online!Reconnect
<1>2. given \in [User -> Path] /\ socket \in [Online!Sockets -> SocketType]
  BY DEF RInv, RosterTypeOK
<1>3. \A k \in {1, 2} : Leaving(socket[<<u, k>>])
  <2>1. PageOK(u, socket)
    BY DEF RInv
  <2>2. \A k \in {1, 2} : k # current[u]
    BY <1>1
  <2> QED
    BY <2>1, <2>2 DEF PageOK
<1>4. gap \in SUBSET {"path", "hide"} /\ ("path" \notin gap => given[u] = path[u])
  OBVIOUS
<1> HIDE DEF gap
<1> QED
  BY <1>1, <1>2, <1>3, <1>4, DialStep

LEMMA LoseStep ==
  ASSUME RInv, NEW u \in User, Online!Lose(u)
  PROVE  RInv'
<1> DEFINE q == <<Online!Closing>>
<1>1. /\ current[u] # 0 /\ current' = [current EXCEPT ![u] = 0] /\ opened' = [opened EXCEPT ![u] = FALSE]
      /\ socket' = LetGo(u, q)
      /\ UNCHANGED <<path, hide, given, roster, clients, missed>>
  BY DEF Online!Lose, Mine, LetGo
<1>2. q \in Seq(Messages) /\ q # <<>> /\ q[Len(q)].say = "close"
  BY DEF Online!Closing, Messages
<1> HIDE DEF q
<1>3. /\ socket' \in [Online!Sockets -> SocketType]
      /\ \A s \in Online!Sockets : s # Mine(u) => socket'[s] = socket[s]
      /\ socket'[Mine(u)].at = socket[Mine(u)].at /\ socket'[Mine(u)].data = socket[Mine(u)].data
      /\ Leaving(socket'[Mine(u)])
  <2>1. RosterTypeOK
    BY DEF RInv
  <2> QED
    BY <1>1, <1>2, <2>1, LetGoLeaves
<1>4. RosterTypeOK'
  BY <1>1, <1>3 DEF RInv, RosterTypeOK
<1>5. /\ current'[u] = 0 /\ opened'[u] = FALSE
      /\ \A v \in User : v # u => current'[v] = current[v] /\ opened'[v] = opened[v]
  BY <1>1 DEF RInv, RosterTypeOK
<1>6. \A v \in User, k \in {1, 2} : v # u => socket'[<<v, k>>] = socket[<<v, k>>]
  BY <1>3, UserSockets DEF Mine
<1>7. \A k \in {1, 2} : Leaving(socket'[<<u, k>>])
  <2> SUFFICES ASSUME NEW k \in {1, 2}  PROVE Leaving(socket'[<<u, k>>])
    OBVIOUS
  <2>1. CASE k = current[u]
    BY <1>3, <2>1 DEF Mine
  <2>2. CASE k # current[u]
    BY <1>3, <2>2, UserSockets DEF Mine, RInv, PageOK
  <2> QED
    BY <2>1, <2>2
<1>8. PageOK(u, socket)'
  BY <1>5, <1>7 DEF PageOK
<1>9. \A s \in Online!Sockets : socket'[s].at = socket[s].at /\ socket'[s].data = socket[s].data
  BY <1>3
<1> QED
  BY <1>1, <1>4, <1>5, <1>6, <1>8, <1>9, PageStep

\* u's page does what it has to tell: it says so, or misses to.
LEMMA SayStep ==
  ASSUME RInv, NEW u \in User, NEW what \in {"path", "hide"}, NEW m \in Messages, m.say = what,
         Online!Say(u, what, m), path' \in [User -> Path], hide' \in [User -> BOOLEAN],
         \A v \in User \ {u} : path'[v] = path[v] /\ hide'[v] = hide[v],
         what = "path" => m.is = path'[u] /\ hide'[u] = hide[u],
         what = "hide" => m.is = hide'[u] /\ path'[u] = path[u],
         UNCHANGED <<given, current, opened, roster, clients>>
  PROVE  RInv'
<1>1. RosterTypeOK /\ PageOK(u, socket)
  BY DEF RInv
<1>2. /\ socket \in [Online!Sockets -> SocketType] /\ missed \in [User -> SUBSET {"path", "hide"}]
      /\ current[u] \in {0, 1, 2}
  BY <1>1 DEF RosterTypeOK
<1>3. CASE opened[u]
  <2> DEFINE q == Append(socket[Mine(u)].toApi, m)
             new == [socket[Mine(u)] EXCEPT !.toApi = q]
  <2>1. Mine(u) \in Online!Sockets /\ current[u] # 0
    BY <1>1, <1>2, <1>3, UserSockets DEF PageOK, Mine
  <2>2. socket[Mine(u)].toApi \in Seq(Messages) /\ socket[Mine(u)] \in SocketType
    BY <1>1, <2>1, SocketParts
  <2>3. /\ q \in Seq(Messages)
        /\ \A x : what # x /\ NoWord(socket[Mine(u)].toApi, x) => NoWord(q, x)
        /\ \A x, v : what # x /\ LastWord(socket[Mine(u)].toApi, x, v) => LastWord(q, x, v)
        /\ LastWord(q, what, m.is)
    <3>1. ASSUME NEW p \in Seq(Messages), NEW r, r = Append(p, m)
          PROVE  /\ r \in Seq(Messages)
                 /\ \A x : what # x /\ NoWord(p, x) => NoWord(r, x)
                 /\ \A x, v : what # x /\ LastWord(p, x, v) => LastWord(r, x, v)
                 /\ LastWord(r, what, m.is)
      BY <3>1, AppendWord
    <3> QED
      BY <2>2, <3>1
  <2> HIDE DEF q
  <2>4. socket' = [socket EXCEPT ![Mine(u)] = new] /\ missed' = [missed EXCEPT ![u] = @ \ {what}]
    BY <1>2, <1>3, <2>1 DEF Online!Say, Mine, q
  <2>5. /\ new \in SocketType /\ new.at = socket[Mine(u)].at /\ new.data = socket[Mine(u)].data
        /\ new.toApi = q /\ new.news = socket[Mine(u)].news
    BY <2>2, <2>3 DEF SocketType
  <2> HIDE DEF new
  <2>6. /\ socket' \in [Online!Sockets -> SocketType] /\ socket'[Mine(u)] = new
        /\ \A s \in Online!Sockets : s # Mine(u) => socket'[s] = socket[s]
    BY <1>2, <2>1, <2>4, <2>5
  <2>7. /\ missed' \in [User -> SUBSET {"path", "hide"}] /\ missed'[u] = missed[u] \ {what}
        /\ \A v \in User : v # u => missed'[v] = missed[v]
    BY <1>2, <2>4
  <2>8. RosterTypeOK'
    BY <1>1, <2>6, <2>7 DEF RosterTypeOK
  <2>9. Mine(u)' = Mine(u)
    BY DEF Mine
  <2>10. PageOK(u, socket)'
    <3>1. \A k \in {1, 2} : k # current[u] => socket'[<<u, k>>] = socket[<<u, k>>]
      BY <2>6, UserSockets DEF Mine
    <3>2. NoWord(q, "close")
      BY <1>1, <2>1, <2>3 DEF PageOK
    <3>3. "path" \notin missed'[u] => PathTold(new, path'[u])
      <4>1. CASE what = "path"
        BY <2>3, <2>5, <4>1 DEF PathTold
      <4>2. CASE what = "hide"
        <5>1. ASSUME "path" \notin missed[u]  PROVE PathTold(socket[Mine(u)], path[u])
          BY <1>1, <2>1, <5>1 DEF PageOK
        <5> QED
          BY <2>3, <2>5, <2>7, <4>2, <5>1 DEF PathTold
      <4> QED
        BY <4>1, <4>2
    <3>4. "hide" \notin missed'[u] => HideTold(new, u, hide'[u])
      <4>1. CASE what = "hide"
        BY <2>3, <2>5, <4>1 DEF HideTold
      <4>2. CASE what = "path"
        <5>1. ASSUME "hide" \notin missed[u]  PROVE HideTold(socket[Mine(u)], u, hide[u])
          BY <1>1, <2>1, <5>1 DEF PageOK
        <5> QED
          BY <2>3, <2>5, <2>7, <4>2, <5>1 DEF HideTold
      <4> QED
        BY <4>1, <4>2
    <3> QED
      BY <1>1, <2>1, <2>5, <2>6, <2>9, <3>1, <3>2, <3>3, <3>4 DEF PageOK
  <2>11. \A v \in User, k \in {1, 2} : v # u => socket'[<<v, k>>] = socket[<<v, k>>]
    BY <2>6, UserSockets DEF Mine
  <2>12. \A s \in Online!Sockets : socket'[s].at = socket[s].at /\ socket'[s].data = socket[s].data
    BY <2>5, <2>6
  <2> QED
    BY <2>5, <2>6, <2>7, <2>8, <2>10, <2>11, <2>12, PageStep
<1>4. CASE ~opened[u]
  <2>1. /\ socket' = socket
        /\ missed' = [missed EXCEPT ![u] = IF current[u] = 0 THEN @ ELSE @ \cup {what}]
    BY <1>4 DEF Online!Say
  <2>2. /\ missed' \in [User -> SUBSET {"path", "hide"}]
        /\ missed'[u] = IF current[u] = 0 THEN missed[u] ELSE missed[u] \cup {what}
        /\ \A v \in User : v # u => missed'[v] = missed[v]
    BY <1>2, <2>1
  <2>3. RosterTypeOK'
    BY <1>1, <2>1, <2>2 DEF RosterTypeOK
  <2>4. PageOK(u, socket)'
    BY <1>1, <1>4, <2>1, <2>2 DEF PageOK, Mine
  <2>5. Mine(u)' = Mine(u)
    BY DEF Mine
  <2> QED
    BY <2>1, <2>2, <2>3, <2>4, <2>5, PageStep
<1> QED
  BY <1>3, <1>4

LEMMA NavigateStep ==
  ASSUME RInv, NEW u \in User, Online!Navigate(u)
  PROVE  RInv'
<1>1. PICK p \in Path : /\ path' = [path EXCEPT ![u] = p]
                        /\ Online!Say(u, "path", [say |-> "path", is |-> p])
                        /\ UNCHANGED <<hide, given, current, opened, roster, clients>>
  BY DEF Online!Navigate
<1> DEFINE m == [say |-> "path", is |-> p]
<1>2. m \in Messages /\ m.say = "path" /\ m.is = p
  BY DEF Messages
<1> HIDE DEF m
<1>3. path \in [User -> Path] /\ hide \in [User -> BOOLEAN]
  BY DEF RInv, RosterTypeOK
<1>4. path' \in [User -> Path] /\ path'[u] = p /\ \A v \in User \ {u} : path'[v] = path[v]
  BY <1>1, <1>3
<1>5. Online!Say(u, "path", m)
  BY <1>1 DEF m
<1> QED
  BY <1>1, <1>2, <1>3, <1>4, <1>5, SayStep

LEMMA SetHideStep ==
  ASSUME RInv, NEW u \in User, Online!SetHide(u)
  PROVE  RInv'
<1> DEFINE m == [say |-> "hide", is |-> ~hide[u]]
<1>1. /\ hide' = [hide EXCEPT ![u] = ~@] /\ Online!Say(u, "hide", m)
      /\ UNCHANGED <<path, given, current, opened, roster, clients>>
  BY DEF Online!SetHide
<1>2. path \in [User -> Path] /\ hide \in [User -> BOOLEAN]
  BY DEF RInv, RosterTypeOK
<1>3. /\ hide' \in [User -> BOOLEAN] /\ hide'[u] = ~hide[u]
      /\ \A v \in User \ {u} : hide'[v] = hide[v]
  BY <1>1, <1>2
<1>4. m \in Messages /\ m.say = "hide" /\ m.is = hide'[u]
  BY <1>3 DEF Messages
<1> HIDE DEF m
<1> QED
  BY <1>1, <1>2, <1>3, <1>4, SayStep

LEMMA HearStep ==
  ASSUME RInv, NEW u \in User, Online!Hear(u)
  PROVE  RInv'
<1>1. RosterTypeOK /\ PageOK(u, socket) /\ NewsOK(u)
  BY DEF RInv
<1>2. current[u] # 0 /\ UNCHANGED <<path, hide, given, current, clients, missed>>
  BY DEF Online!Hear
<1>3. /\ socket \in [Online!Sockets -> SocketType] /\ current[u] \in {1, 2}
      /\ opened \in [User -> BOOLEAN] /\ roster \in [User -> Rosters]
  BY <1>1, <1>2 DEF RosterTypeOK
<1>4. Mine(u) \in Online!Sockets /\ Mine(u)' = Mine(u)
  BY <1>2, <1>3, UserSockets DEF Mine
<1>5. socket[Mine(u)] \in SocketType
  BY <1>3, <1>4
<1>6. \E new \in SocketType :
        /\ socket' = [socket EXCEPT ![Mine(u)] = new]
        /\ new.at = socket[Mine(u)].at /\ new.data = socket[Mine(u)].data
        /\ new.toApi = socket[Mine(u)].toApi
        /\ \/ new.news = socket[Mine(u)].news /\ roster' = roster /\ opened' = [opened EXCEPT ![u] = TRUE]
           \/ /\ socket[Mine(u)].news # None /\ new.news = None
              /\ roster' = [roster EXCEPT ![u] = socket[Mine(u)].news] /\ opened' = opened
  <2>1. CASE /\ opened' = [opened EXCEPT ![u] = TRUE]
             /\ socket' = [socket EXCEPT ![Mine(u)].accepted = FALSE] /\ UNCHANGED roster
    <3> DEFINE new == [socket[Mine(u)] EXCEPT !.accepted = FALSE]
    <3>1. /\ new \in SocketType /\ new.at = socket[Mine(u)].at /\ new.data = socket[Mine(u)].data
          /\ new.toApi = socket[Mine(u)].toApi /\ new.news = socket[Mine(u)].news
      BY <1>5 DEF SocketType
    <3>2. socket' = [socket EXCEPT ![Mine(u)] = new]
      BY <1>3, <1>4, <2>1
    <3> HIDE DEF new
    <3> QED
      BY <2>1, <3>1, <3>2
  <2>2. CASE /\ socket[Mine(u)].news # None /\ roster' = [roster EXCEPT ![u] = socket[Mine(u)].news]
             /\ socket' = [socket EXCEPT ![Mine(u)].news = None] /\ UNCHANGED opened
    <3> DEFINE new == [socket[Mine(u)] EXCEPT !.news = None]
    <3>1. /\ new \in SocketType /\ new.at = socket[Mine(u)].at /\ new.data = socket[Mine(u)].data
          /\ new.toApi = socket[Mine(u)].toApi /\ new.news = None
      BY <1>5 DEF SocketType
    <3>2. socket' = [socket EXCEPT ![Mine(u)] = new]
      BY <1>3, <1>4, <2>2
    <3> HIDE DEF new
    <3> QED
      BY <2>2, <3>1, <3>2
  <2> QED
    BY <2>1, <2>2 DEF Online!Hear, Mine
<1>7. PICK new \in SocketType :
        /\ socket' = [socket EXCEPT ![Mine(u)] = new]
        /\ new.at = socket[Mine(u)].at /\ new.data = socket[Mine(u)].data
        /\ new.toApi = socket[Mine(u)].toApi
        /\ \/ new.news = socket[Mine(u)].news /\ roster' = roster /\ opened' = [opened EXCEPT ![u] = TRUE]
           \/ /\ socket[Mine(u)].news # None /\ new.news = None
              /\ roster' = [roster EXCEPT ![u] = socket[Mine(u)].news] /\ opened' = opened
  BY <1>6
<1>8. /\ socket' \in [Online!Sockets -> SocketType] /\ socket'[Mine(u)] = new
      /\ \A s \in Online!Sockets : s # Mine(u) => socket'[s] = socket[s]
  BY <1>3, <1>4, <1>7
<1>9. socket[Mine(u)].news \in Rosters \cup {None}
  BY <1>1, <1>4, SocketParts
<1>10. /\ roster' \in [User -> Rosters] /\ opened' \in [User -> BOOLEAN]
       /\ \A v \in User : v # u => roster'[v] = roster[v] /\ opened'[v] = opened[v]
  BY <1>3, <1>7, <1>9
<1>11. RosterTypeOK'
  BY <1>1, <1>2, <1>8, <1>10 DEF RosterTypeOK
<1>12. PageOK(u, socket)'
  <2>1. \A k \in {1, 2} : k # current[u] => socket'[<<u, k>>] = socket[<<u, k>>]
    BY <1>8, UserSockets DEF Mine
  <2> QED
    BY <1>1, <1>2, <1>4, <1>7, <1>8, <2>1 DEF PageOK, PathTold, HideTold
<1>13. \A v \in User, k \in {1, 2} : v # u => socket'[<<v, k>>] = socket[<<v, k>>]
  BY <1>8, UserSockets DEF Mine
<1>14. \A s \in Online!Sockets : socket'[s].at = socket[s].at /\ socket'[s].data = socket[s].data
  BY <1>7, <1>8
<1>15. socket'[Mine(u)'].at = "up" =>
         \/ roster'[u] = roster[u] /\ socket'[Mine(u)].news = socket[Mine(u)].news
         \/ Online!Seen(clients, socket, u) = IF socket'[Mine(u)'].news = None THEN roster'[u] ELSE socket'[Mine(u)'].news
  BY <1>1, <1>2, <1>3, <1>4, <1>7, <1>8 DEF NewsOK
<1> QED
  BY <1>2, <1>10, <1>11, <1>12, <1>13, <1>14, <1>15, PageStep

-----------------------------------------------------------------------------
(* The roster: steps of the api.                                           *)

\* The api changes its clients to cs and their sockets to ss, and tells everybody.
LEMMA BroadcastStep ==
  ASSUME RInv, NEW cs \in Seq(Online!Sockets), NEW ss \in [Online!Sockets -> SocketType],
         \A i, j \in 1 .. Len(cs) : cs[i] = cs[j] => i = j,
         \A s \in Online!Sockets : ss[s].at = "up" <=> \E i \in 1 .. Len(cs) : cs[i] = s,
         \A u \in User : PageOK(u, ss),
         Online!Broadcast(cs, ss), UNCHANGED <<path, hide, given, current, opened, roster, missed>>
  PROVE  RInv'
<1> DEFINE In(s) == \E i \in 1 .. Len(cs) : cs[i] = s
           New(s) == [ss[s] EXCEPT !.news = Online!Seen(cs, ss, s[1])]
<1>1. clients' = cs /\ socket' = [s \in Online!Sockets |-> IF In(s) THEN New(s) ELSE ss[s]]
  <2>1. DOMAIN cs = 1 .. Len(cs)
    OBVIOUS
  <2> QED
    BY <2>1 DEF Online!Broadcast
<1>2. \A v : Online!Seen(cs, ss, v) \in Rosters
  BY SeenRoster
<1>3. ASSUME NEW s \in Online!Sockets
      PROVE  /\ New(s) \in SocketType /\ New(s).at = ss[s].at /\ New(s).data = ss[s].data
             /\ New(s).toApi = ss[s].toApi /\ New(s).news = Online!Seen(cs, ss, s[1])
  <2> DEFINE n == Online!Seen(cs, ss, s[1])
  <2>1. n \in Rosters
    BY <1>2
  <2> HIDE DEF n
  <2>2. ss[s] \in SocketType
    OBVIOUS
  <2>3. [ss[s] EXCEPT !.news = n] \in SocketType
    BY <2>1, <2>2 DEF SocketType
  <2>4. LET r == [ss[s] EXCEPT !.news = n]
        IN r.at = ss[s].at /\ r.data = ss[s].data /\ r.toApi = ss[s].toApi /\ r.news = n
    BY <2>2 DEF SocketType
  <2> QED
    BY <2>3, <2>4 DEF n
<1> HIDE DEF New
<1>4. ASSUME NEW s \in Online!Sockets
      PROVE  /\ socket'[s] \in SocketType /\ socket'[s].at = ss[s].at /\ socket'[s].data = ss[s].data
             /\ socket'[s].toApi = ss[s].toApi
             /\ ss[s].at = "up" => socket'[s].news = Online!Seen(cs, ss, s[1])
             /\ ss[s].at # "up" => socket'[s] = ss[s]
  <2>1. ss[s] \in SocketType /\ (In(s) <=> ss[s].at = "up")
    OBVIOUS
  <2>2. socket'[s] = IF In(s) THEN New(s) ELSE ss[s]
    BY <1>1
  <2> QED
    BY <1>3, <2>1, <2>2
<1>5. RosterTypeOK'
  <2>1. socket' \in [Online!Sockets -> SocketType]
    BY <1>1, <1>4
  <2>2. RosterTypeOK
    BY DEF RInv
  <2> QED
    BY <1>1, <2>1, <2>2 DEF RosterTypeOK
<1>6. ClientsOK'
  BY <1>1, <1>4 DEF ClientsOK
<1>7. ASSUME NEW u \in User  PROVE PageOK(u, socket)'
  <2>1. PageOK(u, ss)
    OBVIOUS
  <2>2. ASSUME NEW s \in Online!Sockets, Leaving(ss[s])  PROVE Leaving(socket'[s])
    BY <1>4, <2>2, GoneSocket DEF Leaving
  <2>3. \A k \in {1, 2} : k # current[u] => Leaving(socket'[<<u, k>>])
    BY <2>1, <2>2, UserSockets DEF PageOK
  <2>4. current[u] \in {0, 1, 2}
    BY DEF RInv, RosterTypeOK
  <2>5. current[u] # 0 => Mine(u) \in Online!Sockets
    BY <2>4, UserSockets DEF Mine
  <2> QED
    BY <1>4, <2>1, <2>3, <2>5 DEF PageOK, PathTold, HideTold, Mine
<1>8. ASSUME NEW u \in User  PROVE NewsOK(u)'
  <2> SUFFICES ASSUME current[u] # 0, socket'[Mine(u)].at = "up"
      PROVE  Online!Seen(cs, socket', u) = IF socket'[Mine(u)].news = None THEN roster[u] ELSE socket'[Mine(u)].news
    BY <1>1 DEF NewsOK, Mine
  <2>1. Mine(u) \in Online!Sockets /\ Mine(u)[1] = u
    <3>1. current[u] \in {0, 1, 2}
      BY DEF RInv, RosterTypeOK
    <3> QED
      BY <3>1, UserSockets DEF Mine
  <2>2. socket'[Mine(u)].news = Online!Seen(cs, ss, u)
    BY <1>4, <2>1
  <2>3. Online!Seen(cs, ss, u) # None
    BY <1>2, RosterAssumption DEF Rosters
  <2>4. \A i \in 1 .. Len(cs) : ss[cs[i]].data = socket'[cs[i]].data
    BY <1>4
  <2>5. Online!Seen(cs, ss, u) = Online!Seen(cs, socket', u)
    <3>1. cs \in Seq(Online!Sockets)
      OBVIOUS
    <3> HIDE DEF In
    <3> QED
      BY ONLY <2>4, <3>1, SameSeen
  <2> QED
    BY <2>2, <2>3, <2>5
<1> QED
  BY <1>5, <1>6, <1>7, <1>8 DEF RInv

LEMMA OpenStep ==
  ASSUME RInv, NEW s \in Online!Sockets, Online!Open(s)
  PROVE  RInv'
<1> DEFINE new == [socket[s] EXCEPT !.at = "up", !.accepted = TRUE]
           ss == [socket EXCEPT ![s] = new]
           cs == Append(clients, s)
<1>1. RosterTypeOK /\ ClientsOK /\ \A u \in User : PageOK(u, socket)
  BY DEF RInv
<1>2. socket \in [Online!Sockets -> SocketType] /\ socket[s] \in SocketType /\ clients \in Seq(Online!Sockets)
  BY <1>1 DEF RosterTypeOK
<1>3. /\ socket[s].at = "dialing" /\ Online!Broadcast(cs, ss)
      /\ UNCHANGED <<path, hide, given, current, opened, roster, missed>>
  BY <1>2 DEF Online!Open, Online!page
<1>4. /\ new \in SocketType /\ new.at = "up" /\ new.data = socket[s].data /\ new.toApi = socket[s].toApi
  BY <1>2 DEF SocketType
<1> HIDE DEF new
<1>5. /\ ss \in [Online!Sockets -> SocketType] /\ ss[s] = new
      /\ \A t \in Online!Sockets : t # s => ss[t] = socket[t]
  BY <1>2, <1>4
<1> HIDE DEF ss
<1>6. \A i \in 1 .. Len(clients) : clients[i] # s
  BY <1>1, <1>3 DEF ClientsOK
<1>7. /\ cs \in Seq(Online!Sockets)
      /\ \A x : (\E i \in 1 .. Len(cs) : cs[i] = x) <=> x = s \/ \E i \in 1 .. Len(clients) : clients[i] = x
      /\ \A i, j \in 1 .. Len(cs) : cs[i] = cs[j] => i = j
  BY <1>1, <1>2, <1>6, AppendClient DEF ClientsOK
<1> HIDE DEF cs
<1>8. \A t \in Online!Sockets : ss[t].at = "up" <=> \E i \in 1 .. Len(cs) : cs[i] = t
  BY <1>1, <1>4, <1>5, <1>7 DEF ClientsOK
<1>9. ASSUME NEW u \in User  PROVE PageOK(u, ss)
  <2>1. PageOK(u, socket)
    BY <1>1
  <2>2. ASSUME NEW t \in Online!Sockets, Leaving(socket[t])  PROVE Leaving(ss[t])
    BY <1>3, <1>4, <1>5, <2>2, GoneSocket DEF Leaving
  <2>3. \A k \in {1, 2} : k # current[u] => Leaving(ss[<<u, k>>])
    BY <2>1, <2>2, UserSockets DEF PageOK
  <2>4. current[u] # 0 => Mine(u) \in Online!Sockets
    BY <1>1, UserSockets DEF Mine, RosterTypeOK
  <2> QED
    BY <1>4, <1>5, <2>1, <2>3, <2>4 DEF PageOK, PathTold, HideTold
<1> QED
  BY <1>3, <1>5, <1>7, <1>8, <1>9, BroadcastStep

\* What a page on socket s has told comes to the api.
LEMMA ToldStep ==
  ASSUME RInv, NEW s \in Online!Sockets, Online!Receive(s),
         Head(socket[s].toApi).say \in {"path", "hide"}
  PROVE  RInv'
<1> DEFINE q == socket[s].toApi
           m == Head(q)
           data == IF m.say = "path" THEN [socket[s].data EXCEPT !.path = m.is]
                   ELSE [socket[s].data EXCEPT !.hidden = Online!Hidden(s[1], m.is)]
           new == [socket[s] EXCEPT !.data = data, !.toApi = Tail(q)]
           ss == [socket EXCEPT ![s] = new]
<1>1. RosterTypeOK /\ ClientsOK /\ \A u \in User : PageOK(u, socket)
  BY DEF RInv
<1>2. /\ socket \in [Online!Sockets -> SocketType] /\ socket[s] \in SocketType
      /\ clients \in Seq(Online!Sockets) /\ q \in Seq(Messages) /\ socket[s].data \in SocketData
  BY <1>1, SocketParts DEF RosterTypeOK
<1>3. /\ socket[s].at = "up" /\ q # <<>> /\ m.say \in {"path", "hide"}
      /\ UNCHANGED <<path, hide, given, current, opened, roster, missed>>
  BY DEF Online!Receive, Online!page
<1>4. Online!Broadcast(clients, ss)
  <2>1. Online!Told(s, m) = ss
    <3>1. CASE m.say = "path"
      BY <1>2, <3>1 DEF Online!Told
    <3>2. CASE m.say = "hide"
      BY <1>2, <3>2 DEF Online!Told
    <3> QED
      BY <1>3, <3>1, <3>2
  <2>2. Online!Broadcast(clients, Online!Told(s, m))
    BY <1>3 DEF Online!Receive
  <2> QED
    BY <2>1, <2>2
<1>5. /\ Tail(q) \in Seq(Messages) /\ m \in Messages
      /\ \A x : NoWord(q, x) => NoWord(Tail(q), x) /\ m.say # x
      /\ \A x, v : LastWord(q, x, v) => LastWord(Tail(q), x, v) \/ (NoWord(Tail(q), x) /\ m.say = x /\ m.is = v)
      /\ q[Len(q)].say # m.say => Tail(q) # <<>> /\ Tail(q)[Len(Tail(q))] = q[Len(q)]
  <2> HIDE DEF q
  <2> QED
    BY <1>2, <1>3, TailWord
<1>6. /\ data \in SocketData
      /\ m.say = "path" => data.path = m.is /\ data.hidden = socket[s].data.hidden
      /\ m.say = "hide" => data.path = socket[s].data.path /\ data.hidden = Online!Hidden(s[1], m.is)
  <2> HIDE DEF m
  <2>1. CASE m.say = "path"
    <3>1. m.is \in Path
      BY <1>5, <2>1 DEF Messages
    <3> QED
      BY <1>2, <2>1, <3>1 DEF SocketData
  <2>2. CASE m.say = "hide"
    <3>1. m.is \in BOOLEAN
      BY <1>5, <2>2 DEF Messages
    <3>2. Online!Hidden(s[1], m.is) \in BOOLEAN
      BY <3>1 DEF Online!Hidden
    <3> QED
      BY <1>2, <2>2, <3>2 DEF SocketData
  <2> QED
    BY <1>3, <2>1, <2>2
<1> HIDE DEF data
<1>7. new \in SocketType /\ new.at = "up" /\ new.data = data /\ new.toApi = Tail(q)
  <2> DEFINE r == Tail(q)
  <2>1. r \in Seq(Messages)
    BY <1>5
  <2> HIDE DEF r
  <2>2. LET n == [socket[s] EXCEPT !.data = data, !.toApi = r]
        IN n \in SocketType /\ n.at = socket[s].at /\ n.data = data /\ n.toApi = r
    BY <1>2, <1>6, <2>1 DEF SocketType
  <2> QED
    BY <1>3, <2>2 DEF r
<1> HIDE DEF new
<1>8. /\ ss \in [Online!Sockets -> SocketType] /\ ss[s] = new
      /\ \A t \in Online!Sockets : t # s => ss[t] = socket[t]
  BY <1>2, <1>7
<1> HIDE DEF ss, q, m
<1>9. \A t \in Online!Sockets : ss[t].at = "up" <=> \E i \in 1 .. Len(clients) : clients[i] = t
  BY <1>1, <1>3, <1>7, <1>8 DEF ClientsOK
<1>10. ASSUME NEW u \in User  PROVE PageOK(u, ss)
  <2>1. PageOK(u, socket)
    BY <1>1
  <2>2. ASSUME Leaving(socket[s])  PROVE Leaving(new)
    <3>1. socket[s] # Online!Gone
      BY <1>3, GoneSocket
    <3>2. q[Len(q)].say = "close"
      BY <2>2, <3>1 DEF Leaving, q
    <3> QED
      BY <1>3, <1>5, <1>7, <3>2 DEF Leaving
  <2>3. \A k \in {1, 2} : k # current[u] => Leaving(ss[<<u, k>>])
    BY <1>8, <2>1, <2>2, UserSockets DEF PageOK
  <2>4. CASE current[u] # 0 /\ s = Mine(u)
    <3>1. s[1] = u
      BY <2>4 DEF Mine
    <3>2. NoWord(Tail(q), "close")
      BY <1>5, <2>1, <2>4 DEF PageOK, q
    <3>3. ASSUME NEW p, PathTold(socket[s], p)  PROVE PathTold(new, p)
      <4>1. LastWord(q, "path", p) \/ (NoWord(q, "path") /\ socket[s].data.path = p)
        BY <3>3 DEF PathTold, q
      <4>2. m.say = "hide" => data.path = socket[s].data.path
        BY <1>6
      <4> QED
        BY <1>3, <1>5, <1>6, <1>7, <4>1, <4>2 DEF PathTold
    <3>4. ASSUME NEW h, HideTold(socket[s], u, h)  PROVE HideTold(new, u, h)
      <4>1. LastWord(q, "hide", h) \/ (NoWord(q, "hide") /\ socket[s].data.hidden = Online!Hidden(u, h))
        BY <3>4 DEF HideTold, q
      <4> QED
        BY <1>3, <1>5, <1>6, <1>7, <3>1, <4>1 DEF HideTold
    <3> QED
      BY <1>7, <1>8, <2>1, <2>3, <2>4, <3>2, <3>3, <3>4 DEF PageOK
  <2>5. CASE ~(current[u] # 0 /\ s = Mine(u))
    <3>1. current[u] # 0 => Mine(u) \in Online!Sockets
      BY <1>1, UserSockets DEF Mine, RosterTypeOK
    <3> QED
      BY <1>8, <2>1, <2>3, <2>5, <3>1 DEF PageOK
  <2> QED
    BY <2>4, <2>5
<1>11. \A i, j \in 1 .. Len(clients) : clients[i] = clients[j] => i = j
  BY <1>1 DEF ClientsOK
<1> QED
  BY <1>2, <1>3, <1>4, <1>8, <1>9, <1>10, <1>11, BroadcastStep

\* The end of socket s comes to the api.
LEMMA ClosedStep ==
  ASSUME RInv, NEW s \in Online!Sockets, Online!Receive(s),
         Head(socket[s].toApi).say = "close"
  PROVE  RInv'
<1> DEFINE ss == [socket EXCEPT ![s] = Online!Gone]
           cs == Online!Without(clients, s)
<1>1. RosterTypeOK /\ ClientsOK /\ \A u \in User : PageOK(u, socket)
  BY DEF RInv
<1>2. /\ socket \in [Online!Sockets -> SocketType] /\ clients \in Seq(Online!Sockets)
      /\ socket[s].toApi \in Seq(Messages)
  BY <1>1, SocketParts DEF RosterTypeOK
<1>3. /\ socket[s].at = "up" /\ socket[s].toApi # <<>> /\ Online!Broadcast(cs, ss)
      /\ UNCHANGED <<path, hide, given, current, opened, roster, missed>>
  BY DEF Online!Receive, Online!page, Online!Told
<1>4. /\ ss \in [Online!Sockets -> SocketType] /\ ss[s] = Online!Gone
      /\ \A t \in Online!Sockets : t # s => ss[t] = socket[t]
  BY <1>2, GoneSocket
<1> HIDE DEF ss
<1>5. \E i \in 1 .. Len(clients) : clients[i] = s
  BY <1>1, <1>3 DEF ClientsOK
<1>6. /\ cs \in Seq(Online!Sockets)
      /\ \A x : (\E i \in 1 .. Len(cs) : cs[i] = x) <=> x # s /\ \E i \in 1 .. Len(clients) : clients[i] = x
      /\ \A i, j \in 1 .. Len(cs) : cs[i] = cs[j] => i = j
  <2>1. \A i, j \in 1 .. Len(clients) : clients[i] = clients[j] => i = j
    BY <1>1 DEF ClientsOK
  <2>2. clients \in Seq(Online!Sockets)
    BY <1>2
  <2> QED
    BY ONLY <1>5, <2>1, <2>2, WithoutClient
<1> HIDE DEF cs
<1>7. \A t \in Online!Sockets : ss[t].at = "up" <=> \E i \in 1 .. Len(cs) : cs[i] = t
  BY <1>1, <1>4, <1>6, GoneSocket DEF ClientsOK
<1>8. ASSUME NEW u \in User  PROVE PageOK(u, ss)
  <2>1. PageOK(u, socket)
    BY <1>1
  <2>2. \A k \in {1, 2} : k # current[u] => Leaving(ss[<<u, k>>])
    BY <1>4, <2>1, UserSockets, GoneSocket DEF PageOK
  <2>3. ASSUME current[u] # 0  PROVE s # Mine(u) /\ Mine(u) \in Online!Sockets
    <3>1. Mine(u) \in Online!Sockets
      BY <1>1, <2>3, UserSockets DEF Mine, RosterTypeOK
    <3>2. NoWord(socket[Mine(u)].toApi, "close")
      BY <2>1, <2>3 DEF PageOK
    <3>3. ~NoWord(socket[s].toApi, "close")
      <4>1. Head(socket[s].toApi) = socket[s].toApi[1] /\ 1 \in 1 .. Len(socket[s].toApi)
        BY <1>2, <1>3
      <4> QED
        BY <4>1 DEF NoWord
    <3> QED
      BY <3>1, <3>2, <3>3
  <2> QED
    BY <1>4, <2>1, <2>2, <2>3 DEF PageOK
<1> QED
  BY <1>3, <1>4, <1>6, <1>7, <1>8, BroadcastStep

-----------------------------------------------------------------------------
(* The roster: what the invariant says.                                    *)

LEMMA RInvInit == Online!Init => RInv
<1> SUFFICES ASSUME Online!Init  PROVE RInv
  OBVIOUS
<1>1. RosterTypeOK
  <2>1. <<>> \in Seq(Online!Sockets)
    OBVIOUS
  <2>2. roster \in [User -> Rosters]
    BY DEF Online!Init, Rosters
  <2> QED
    BY <2>1, <2>2, GoneSocket DEF Online!Init, RosterTypeOK
<1>2. \A s \in Online!Sockets : socket[s] = Online!Gone
  BY DEF Online!Init
<1>3. clients = <<>> /\ \A u \in User : current[u] = 0 /\ opened[u] = FALSE
  BY DEF Online!Init
<1>4. ClientsOK
  <2>1. Len(clients) = 0
    BY <1>3
  <2> QED
    BY <1>2, <2>1, GoneSocket DEF ClientsOK
<1>5. \A u \in User : PageOK(u, socket) /\ NewsOK(u)
  BY <1>2, <1>3, UserSockets, GoneSocket DEF PageOK, NewsOK
<1> QED
  BY <1>1, <1>4, <1>5 DEF RInv

LEMMA RInvStep ==
  ASSUME RInv, [Online!Next]_(Online!vars)  PROVE RInv'
<1>1. ASSUME NEW u \in User, Online!Renew(u) \/ Online!Lose(u) \/ Online!Reconnect(u)
                               \/ Online!Navigate(u) \/ Online!SetHide(u) \/ Online!Hear(u)
      PROVE  RInv'
  BY <1>1, RenewStep, LoseStep, ReconnectStep, NavigateStep, SetHideStep, HearStep
<1>2. ASSUME NEW s \in Online!Sockets, Online!Receive(s)  PROVE RInv'
  <2>1. socket[s].toApi \in Seq(Messages) /\ socket[s].toApi # <<>>
    BY <1>2, SocketParts DEF Online!Receive, RInv
  <2>2. Head(socket[s].toApi) \in Messages
    BY <2>1
  <2>3. Head(socket[s].toApi).say \in {"path", "hide", "close"}
    BY <2>2 DEF Messages
  <2> QED
    BY <1>2, <2>3, ToldStep, ClosedStep
<1>3. CASE UNCHANGED Online!vars
  BY <1>3 DEF Online!vars, Online!page, RInv, RosterTypeOK, ClientsOK, PageOK, NewsOK, Mine, PathTold, HideTold
<1> QED
  BY <1>1, <1>2, <1>3, OpenStep DEF Online!Next

\* What the invariant says once everything is delivered.
LEMMA DeliveredTruth ==
  ASSUME RInv, Online!Delivered, NEW v \in User, NEW u \in User, current[v] # 0, missed[u] = {}
  PROVE  roster[v][u] = Online!Truth(u, v)
<1> DEFINE mine == {i \in DOMAIN clients :
                      clients[i][1] = u /\ (v \in Developers \/ ~socket[clients[i]].data.hidden)}
           top == CHOOSE i \in mine : \A j \in mine : j <= i
<1>1. RosterTypeOK /\ ClientsOK /\ PageOK(u, socket) /\ PageOK(v, socket) /\ NewsOK(v)
  BY DEF RInv
<1>2. /\ clients \in Seq(Online!Sockets) /\ DOMAIN clients = 1 .. Len(clients) /\ Len(clients) \in Nat
      /\ current \in [User -> {0, 1, 2}] /\ hide[u] \in BOOLEAN
  BY <1>1 DEF RosterTypeOK
<1>3. ASSUME NEW w \in User, current[w] # 0
      PROVE  Mine(w) \in Online!Sockets /\ socket[Mine(w)].at = "up"
  <2>1. Mine(w) \in Online!Sockets
    BY <1>2, <1>3, UserSockets DEF Mine
  <2>2. PageOK(w, socket) /\ socket[Mine(w)] \in SocketType
    BY <1>1, <2>1 DEF RInv, RosterTypeOK
  <2> QED
    BY <1>3, <2>1, <2>2 DEF PageOK, SocketType, Online!Delivered
<1>4. roster[v][u] = IF mine = {} THEN None ELSE socket[clients[top]].data.path
  <2>1. Online!Seen(clients, socket, v) = roster[v]
    BY <1>1, <1>3 DEF NewsOK, Online!Delivered
  <2> QED
    BY <2>1 DEF Online!Seen
<1> HIDE DEF top
<1>5. ASSUME NEW i \in 1 .. Len(clients), clients[i][1] = u
      PROVE  current[u] # 0 /\ clients[i] = Mine(u)
  <2>1. clients[i] \in Online!Sockets /\ socket[clients[i]].at = "up"
    BY <1>1, <1>2 DEF ClientsOK
  <2>2. PICK k \in {1, 2} : clients[i] = <<u, k>>
    BY <1>5, <2>1, UserSockets
  <2>3. ~Leaving(socket[clients[i]])
    BY <2>1, GoneSocket DEF Leaving, Online!Delivered
  <2> QED
    BY <1>1, <2>2, <2>3 DEF PageOK, Mine
<1>6. CASE current[u] = 0
  <2>1. mine = {}
    BY <1>2, <1>5, <1>6
  <2> QED
    BY <1>4, <1>6, <2>1 DEF Online!Truth
<1>7. CASE current[u] # 0
  <2>1. /\ socket[Mine(u)].data.path = path[u]
        /\ socket[Mine(u)].data.hidden = Online!Hidden(u, hide[u])
    <3>1. Mine(u) \in Online!Sockets /\ socket[Mine(u)].toApi = <<>>
      BY <1>3, <1>7 DEF Online!Delivered
    <3>2. PathTold(socket[Mine(u)], path[u]) /\ HideTold(socket[Mine(u)], u, hide[u])
      BY <1>1, <1>7 DEF PageOK
    <3>3. ~LastWord(<<>>, "path", path[u]) /\ ~LastWord(<<>>, "hide", hide[u])
      BY DEF LastWord
    <3> QED
      BY <3>1, <3>2, <3>3 DEF PathTold, HideTold
  <2>2. PICK i \in 1 .. Len(clients) : clients[i] = Mine(u)
    BY <1>1, <1>3, <1>7 DEF ClientsOK
  <2>3. clients[i][1] = u
    BY <2>2 DEF Mine
  <2>4. CASE Online!Hidden(u, hide[u]) /\ v \notin Developers
    <3>1. mine = {}
      BY <1>2, <1>5, <2>1, <2>4
    <3> QED
      BY <1>4, <2>4, <3>1 DEF Online!Truth
  <2>5. CASE ~(Online!Hidden(u, hide[u]) /\ v \notin Developers)
    <3>1. i \in mine
      BY <1>2, <2>1, <2>2, <2>3, <2>5
    <3>2. \A j \in mine : j = i
      BY <1>1, <1>2, <1>5, <2>2 DEF ClientsOK
    <3>3. top = i
      <4>1. \E k \in mine : \A j \in mine : j <= k
        BY <1>2, <3>1, <3>2
      <4>2. top \in mine
        BY <4>1 DEF top
      <4> QED
        BY <3>2, <4>2
    <3> QED
      BY <1>4, <1>7, <2>1, <2>2, <2>5, <3>1, <3>3 DEF Online!Truth
  <2> QED
    BY <2>4, <2>5
<1> QED
  BY <1>2, <1>6, <1>7

\* Once all messages are delivered, every page that is connected shows everybody who is, on
\* the page they look at, and nobody who hides, whatever was said, lost and dialed again
\* (ws/presence.ts, hooks/use-presence.ts).
THEOREM RostersAreTrue == Online!Spec => []RosterIsTrue
<1>1. RInv => RosterIsTrue
  BY DeliveredTruth DEF RosterIsTrue, Online!RosterIsTrue
<1>2. Online!Init => RInv
  BY RInvInit
<1>3. RInv /\ [Online!Next]_(Online!vars) => RInv'
  BY RInvStep
<1> QED
  BY <1>1, <1>2, <1>3, PTL DEF Online!Spec
=============================================================================
