------------------------------ MODULE MCStore ------------------------------
(***************************************************************************)
(* Store for TLC.                                                          *)
(***************************************************************************)
EXTENDS StoreInvariant, TLC

FourPages == 0 .. 3
FivePages == 0 .. 4
SixPages == 0 .. 5

Symmetry == Permutations(Files) \cup Permutations(PageSizes)

=============================================================================
