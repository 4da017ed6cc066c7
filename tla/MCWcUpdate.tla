----------------------------- MODULE MCWcUpdate -----------------------------
(* TLC instance of WcUpdate: a file that may be replaced and a protected one
   in a folder of a card that overlooks files. *)
EXTENDS WcUpdate
=============================================================================
