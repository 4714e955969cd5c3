\* A refresh that was asked for before a form was opened puts another member into it.
CONSTANTS
  None = None
  User = {u1, u2}
  Call = {c1, c2}
  MaxMoves = 2
CHECK_DEADLOCK FALSE
SPECIFICATION Spec
PROPERTY FormKeepsMember
