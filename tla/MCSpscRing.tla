----------------------------- MODULE MCSpscRing -----------------------------
(***************************************************************************)
(* TLC instance of SpscRing: two slots, positions that wrap after eight,   *)
(* so that both the ring and its counters wrap within a few calls.         *)
(***************************************************************************)
EXTENDS SpscRing

Bits == {0, 1}
=============================================================================
