\* One of three properties the editor does not have; uncomment another to see it refuted.
CONSTANTS
  None = None
  Env = {staging, production}
  First = staging
  Plugin = {p1, p2}
  Call = {c1, c2}
  MaxMoves = 4
CHECK_DEADLOCK FALSE
SPECIFICATION Spec
\* The list of one environment is committed to the other:
PROPERTY CommitsToItsEnvironment
\* A refresh that was asked for before an edit throws the edit away:
\* PROPERTY EditsStay
\* A save puts the whole list and undoes what others changed meanwhile:
\* PROPERTY SaveMergesPlugins
