---------------------------- MODULE MCServices ----------------------------
(***************************************************************************)
(* TLC instance of Services: every kind of request, a queue of two.        *)
(***************************************************************************)
EXTENDS Services

AllCommands == DOMAIN Handler
=============================================================================
