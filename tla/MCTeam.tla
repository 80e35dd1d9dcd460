-------------------------------- MODULE MCTeam --------------------------------
(* Instances of Team for TLC. *)
EXTENDS Team
=============================================================================
