---------------------------- MODULE MCSftpDeploy ----------------------------
(***************************************************************************)
(* A model-checking instance of SftpDeploy.  Either several servers with    *)
(* their own upload targets are deployed to while nobody touches their      *)
(* configuration, or one server is, whose configuration changes in every    *)
(* way (`staffed`), beside others that are not configured.                 *)
(***************************************************************************)
EXTENDS SftpDeploy, TLC

CONSTANT main

VARIABLE staffed

JobSymmetry == Permutations(Job) \cup Permutations(Item)

MCInit ==
  /\ DInit /\ staffed \in BOOLEAN
  /\ \A s \in Server : IF staffed THEN s = main \/ config[s] = "none" ELSE config[s] = "on"

OneServer ==
  \/ /\ \E list \in SUBSET Item : live' = [live EXCEPT ![main] = list]
     /\ \E F \in SUBSET {main, All} : Change(F)
  \/ JobNext
  \/ Configure /\ \A s \in Server \ {main} : config'[s] = "none"

MCNext == UNCHANGED staffed /\ IF staffed THEN OneServer ELSE Edit \/ JobNext

MCSpec == MCInit /\ [][MCNext]_<<dvars, staffed>>
=============================================================================
