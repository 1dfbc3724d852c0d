------------------------------ MODULE MCPower ------------------------------
(***************************************************************************)
(* Power for TLC.                                                          *)
(***************************************************************************)
EXTENDS Power, TLC

FourPages == 0 .. 3

Symmetry == Permutations(Files)

=============================================================================
