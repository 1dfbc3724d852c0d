------------------------------ MODULE MCLayout ------------------------------
(***************************************************************************)
(* The instance of Allocator and Layout that the theorems are about: a     *)
(* page size and addresses that fit into the words.                        *)
(***************************************************************************)
EXTENDS MCAllocator

B == INSTANCE Bitwise

ASSUME FitsAssumption == LayoutFits

\* The operators on words are those of Bitwise.
ASSUME SameAsBitwise ==
    /\ \A x, y \in 0 .. 63 : BitAnd(x, y) = B!&(x, y) /\ BitOr(x, y) = B!|(x, y)
    /\ \A k \in 0 .. 20 : PowerOfTwo[k] = 2 ^ k

=============================================================================
