---------------------------- MODULE MCVfsBridge ----------------------------
(***************************************************************************)
(* TLC instance of VfsBridge: a ring of three bytes, windows of two, so    *)
(* that one write takes several windows and the ring can be fuller or      *)
(* emptier than a window.                                                  *)
(***************************************************************************)
EXTENDS VfsBridge
=============================================================================
