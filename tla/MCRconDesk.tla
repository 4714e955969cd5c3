---------------------------- MODULE MCRconDesk ------------------------------
(* Model-checking instances of RconDesk.                                   *)
EXTENDS RconDesk

CONSTANTS m1, m2

\* A squad of one player: the warning, then the move.
OnePlayer == <<m1, m2>>
=============================================================================
