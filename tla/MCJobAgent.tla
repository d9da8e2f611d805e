----------------------------- MODULE MCJobAgent -----------------------------
(* The agent's queue as it is; the .cfg gives three jobs for two slots.      *)
EXTENDS JobAgent
=============================================================================
