---------------------------- MODULE MCJobDispatch ----------------------------
(* Model values for the server and its agent: one job, numbered connections. *)
EXTENDS JobDispatch, TLC

MCConns == 1..MaxConns
=============================================================================
