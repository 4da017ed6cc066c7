--------------------------- MODULE MCConfigStore ---------------------------
(* TLC instances of ConfigStore: three texts, with and without failures. *)
EXTENDS ConfigStore, TLC

TextSymmetry == Permutations(Text)
=============================================================================
