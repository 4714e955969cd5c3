------------------------- MODULE MCWhitelistDeploy -------------------------
(* Model-checking instances of WhitelistDeploy.                            *)
EXTENDS WhitelistDeploy, TLC

Symmetry == Permutations(Job) \cup Permutations(Server) \cup Permutations(Entry)
            \cup Permutations(Call) \cup Permutations(Steam)
=============================================================================
