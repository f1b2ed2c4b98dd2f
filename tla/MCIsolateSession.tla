-------------------------- MODULE MCIsolateSession --------------------------
(***************************************************************************)
(* IsolateSession for TLC.  Four requests to two workers: a session with an *)
(* evaluate and a close, and the one that takes its place; one module lookup. *)
(***************************************************************************)
EXTENDS IsolateSession

MCMaxRequests == 4
MCMaxSessions == 2
MCMaxModules  == 1
=============================================================================
