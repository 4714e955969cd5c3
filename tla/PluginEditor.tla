----------------------------- MODULE PluginEditor -----------------------------
(***************************************************************************)
(* The SquadJS configuration page (packages/web,                            *)
(* app/(protected)/squadjs-config/page.tsx), the route behind it             *)
(* (packages/api, routes/squadjs-config.ts) and its file on GitHub           *)
(* (lib/github-config.ts).                                                  *)
(*                                                                         *)
(* The page holds one list of plugins, of whichever environment was loaded  *)
(* last, and saves the whole list.  The api reads the file, reads it again   *)
(* for its sha, and puts the list into the first reading; GitHub takes the  *)
(* put if the file still is the second.  A file stands for its sha.         *)
(***************************************************************************)
EXTENDS Naturals

CONSTANTS
  Env,       \* the environments, each with a file
  First,     \* the first of them, which the page opens
  Plugin,    \* the plugins, each either of two configurations
  Call,      \* calls in flight; a bound
  None,
  MaxMoves   \* bound on clicks, edits, failures, renewals and what others do

VARIABLES
  file,      \* file[e]: its plugins, and the rest of it
  activeEnv,
  plugins,   \* what the page shows and edits, None before the first load
  original,  \* originalPlugins
  saving,
  showDiff,  \* the "Review Changes" dialog, which covers the page
  error,
  call,      \* calls in flight
  from,      \* history: the environment the shown list was loaded from
  moves

page == <<plugins, original, from>>
vars == <<file, activeEnv, page, saving, showDiff, error, call, moves>>

-----------------------------------------------------------------------------
Lists == [Plugin -> {0, 1}]
Files == [plugins : Lists, rest : {0, 1}]
Idle == [op |-> "idle", at |-> "asked", env |-> None, body |-> None, base |-> None,
         raw |-> None, sha |-> None]

Init ==
  /\ file \in [Env -> Files]
  /\ activeEnv = None /\ plugins = None /\ original = None /\ from = None
  /\ saving = FALSE /\ showDiff = FALSE /\ error = FALSE
  /\ LET first == CHOOSE c \in Call : TRUE IN
       call = [c \in Call |-> IF c = first THEN [Idle EXCEPT !.op = "envs"] ELSE Idle]
  /\ moves = 0

Move == moves < MaxMoves /\ moves' = moves + 1
Calm == UNCHANGED moves

Loading(e) == [Idle EXCEPT !.op = "load", !.env = e]
Dirty == plugins # original

\* An error with nothing loaded replaces the page.
Usable == plugins # None /\ ~showDiff

-----------------------------------------------------------------------------
(* The page.                                                               *)

\* The layout renews the token: the environments are asked for again, and so are the
\* plugins of the one that is open.
Renew(c, d) ==
  /\ c # d /\ call[c] = Idle /\ call[d] = Idle /\ Move
  /\ call' = [call EXCEPT ![c].op = "envs",
                          ![d] = IF activeEnv = None THEN Idle ELSE Loading(activeEnv)]
  /\ error' = (error /\ activeEnv = None)
  /\ UNCHANGED <<file, activeEnv, page, saving, showDiff>>

\* A tab; unsaved changes need a confirmation, and a save under way stops nobody.  The list
\* of the environment before stays until that of the new one has come.
Switch(c, e) ==
  /\ Usable /\ e # activeEnv /\ call[c] = Idle /\ Move
  /\ activeEnv' = e /\ error' = FALSE
  /\ call' = [call EXCEPT ![c] = Loading(e)]
  /\ UNCHANGED <<file, page, saving, showDiff>>

\* A switch or a field of a plugin's card.
HandlePluginChange(p) ==
  /\ Usable /\ Move
  /\ plugins' = [plugins EXCEPT ![p] = 1 - @]
  /\ UNCHANGED <<file, activeEnv, original, from, saving, showDiff, error, call>>

Review ==
  /\ Usable /\ Dirty /\ ~saving
  /\ showDiff' = TRUE
  /\ Calm /\ UNCHANGED <<file, activeEnv, page, saving, error, call>>

\* The dialog can be left while the save is under way.
CancelDiff ==
  /\ showDiff /\ showDiff' = FALSE
  /\ Calm /\ UNCHANGED <<file, activeEnv, page, saving, error, call>>

HandleSave(c) ==
  /\ showDiff /\ ~saving /\ call[c] = Idle /\ Move
  /\ saving' = TRUE
  /\ call' = [call EXCEPT ![c] = [Idle EXCEPT !.op = "save", !.env = activeEnv, !.body = plugins,
                                             !.base = original]]
  /\ UNCHANGED <<file, activeEnv, page, showDiff, error>>

\* The 20 second refresh, while there is nothing unsaved.  One at a time here.
RefreshPlugins(c) ==
  /\ activeEnv # None /\ ~Dirty /\ ~saving /\ ~showDiff
  /\ call[c] = Idle /\ ~\E o \in Call : call[o].op = "refresh"
  /\ call' = [call EXCEPT ![c] = [Loading(activeEnv) EXCEPT !.op = "refresh"]]
  /\ Calm /\ UNCHANGED <<file, activeEnv, page, saving, showDiff, error>>

-----------------------------------------------------------------------------
(* The api and GitHub.                                                     *)

\* GET /squadjs-config needs no file, GET /:env reads one; PATCH /:env reads it twice.
ReadSquadJSConfig(c) ==
  LET q == call[c] IN
  /\ \/ q.op = "envs" /\ call' = [call EXCEPT ![c].at = "done"]
     \/ /\ q.op \in {"load", "refresh"}
        /\ call' = [call EXCEPT ![c].at = "done", ![c].body = file[q.env].plugins]
     \/ /\ q.op = "save" /\ q.at = "asked"
        /\ call' = [call EXCEPT ![c].at = "read", ![c].raw = file[q.env]]
     \/ /\ q.op = "save" /\ q.at = "read"
        /\ call' = [call EXCEPT ![c].at = "put", ![c].sha = file[q.env]]
  /\ q.at \in {"asked", "read"}
  /\ UNCHANGED file

Put(c) ==
  LET q == call[c] IN
  /\ q.at = "put"
  /\ IF file[q.env] = q.sha
       THEN /\ file' = [file EXCEPT ![q.env] = [q.raw EXCEPT !.plugins = q.body]]
            /\ call' = [call EXCEPT ![c].at = "done"]
       ELSE /\ call' = [call EXCEPT ![c].at = "failed"]
            /\ UNCHANGED file

Serve(c) ==
  /\ ReadSquadJSConfig(c) \/ Put(c)
  /\ Calm /\ UNCHANGED <<activeEnv, page, saving, showDiff, error>>

\* A call fails, or its answer is lost.
Fail(c) ==
  /\ call[c] # Idle /\ call[c].at # "failed"
  /\ call' = [call EXCEPT ![c].at = "failed"]
  /\ Move /\ UNCHANGED <<file, activeEnv, page, saving, showDiff, error>>

\* Other staff, or a push to the repository.
Others(e) ==
  /\ \/ \E p \in Plugin : file' = [file EXCEPT ![e].plugins[p] = 1 - @]
     \/ file' = [file EXCEPT ![e].rest = 1 - @]
  /\ Move /\ UNCHANGED <<activeEnv, page, saving, showDiff, error, call>>

-----------------------------------------------------------------------------
(* The answers.                                                            *)

End(c) == call' = [call EXCEPT ![c] = Idle]

\* The environments have come: the page goes to the first, unsaved changes or not.
LoadEnvs(c) ==
  /\ call[c].op = "envs" /\ activeEnv' = First
  /\ IF activeEnv = First
       THEN End(c) /\ UNCHANGED error
       ELSE call' = [call EXCEPT ![c] = Loading(First)] /\ error' = FALSE
  /\ UNCHANGED <<page, saving, showDiff>>

\* A list has come: it is shown, whichever environment is open by now.
LoadPlugins(c) ==
  /\ call[c].op \in {"load", "refresh"} /\ End(c)
  /\ plugins' = call[c].body /\ original' = call[c].body /\ from' = call[c].env
  /\ UNCHANGED <<activeEnv, saving, showDiff, error>>

Saved(c) ==
  /\ call[c].op = "save" /\ End(c)
  /\ original' = call[c].body /\ showDiff' = FALSE /\ saving' = FALSE
  /\ UNCHANGED <<activeEnv, plugins, from, error>>

Answer(c) ==
  /\ call[c].at = "done"
  /\ LoadEnvs(c) \/ LoadPlugins(c) \/ Saved(c)
  /\ Calm /\ UNCHANGED file

Failed(c) ==
  /\ call[c].at = "failed" /\ End(c)
  /\ error' = (error \/ call[c].op \in {"envs", "load"})
  /\ saving' = (saving /\ call[c].op # "save")
  /\ Calm /\ UNCHANGED <<file, activeEnv, page, showDiff>>

Next ==
  \/ \E c \in Call :
       \/ HandleSave(c) \/ RefreshPlugins(c) \/ Serve(c) \/ Fail(c) \/ Answer(c) \/ Failed(c)
       \/ \E d \in Call : Renew(c, d)
       \/ \E e \in Env : Switch(c, e)
  \/ \E p \in Plugin : HandlePluginChange(p)
  \/ \E e \in Env : Others(e)
  \/ Review \/ CancelDiff

\* Calls are answered, the interval goes on.  Nobody has to click.
Fairness == \A c \in Call :
  WF_vars(Serve(c)) /\ WF_vars(Answer(c)) /\ WF_vars(Failed(c)) /\ WF_vars(RefreshPlugins(c))

Spec == Init /\ [][Next]_vars /\ Fairness

-----------------------------------------------------------------------------
(* What must hold.                                                         *)

\* Once everybody leaves things alone, the page shows the plugins of the environment that is
\* open, unless it holds unsaved changes or asks whether to save them.
ConfigSettles ==
  <>[](activeEnv = None \/ Dirty \/ showDiff \/ plugins = file[activeEnv].plugins)

\* What the page commits to an environment is a list it loaded from that environment.  The code
\* breaks it: the list of the environment before stays, and can be edited and saved, until
\* that of the new one has come, and for good when the load fails.
CommitsToItsEnvironment ==
  [][\A c \in Call : call[c] = Idle /\ call'[c].op = "save" => from = call'[c].env]_vars

\* Changes that are made to an environment's list stay: no answer puts another list in their
\* place.  The code breaks it: a refresh that was asked for before the first change, or
\* a renewal of the token, puts the file's list in their place.
EditsStay ==
  [][Dirty /\ from = activeEnv /\ call' # call => plugins' = plugins]_vars

\* A commit changes those plugins only that were edited.  The code breaks it: the whole list
\* is put, with what it said before others changed the file.
SaveMergesPlugins ==
  [][\A c \in Call : Put(c) =>
       \A p \in Plugin : file'[call[c].env].plugins[p] # file[call[c].env].plugins[p]
                           => call[c].body[p] # call[c].base[p]]_vars
=============================================================================
