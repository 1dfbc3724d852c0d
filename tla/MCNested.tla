------------------------------ MODULE MCNested ------------------------------
(***************************************************************************)
(* Nested for TLC: a root object with one or two children.                 *)
(***************************************************************************)
EXTENDS NestedInvariant, TLC

CONSTANTS c1, c2, o1, o2

OneChild == c1 :> o1
OneChildMissing == c1 :> o1 @@ c2 :> None

Symmetry == Permutations(Txs)

=============================================================================
