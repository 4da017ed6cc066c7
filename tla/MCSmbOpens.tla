---------------------------- MODULE MCSmbOpens -----------------------------
(***************************************************************************)
(* TLC instances of SmbOpens.  MCSmbOpens.cfg: two names, two opens, no    *)
(* locks.  MCSmbLocks.cfg: one name, two opens, two locks on two bytes.    *)
(* The two others show a disagreement of code and comment each.            *)
(***************************************************************************)
EXTENDS SmbOpens, TLC

Symmetry ==
  Permutations(Conn) \union Permutations(Path) \union Permutations(Slot)
=============================================================================
