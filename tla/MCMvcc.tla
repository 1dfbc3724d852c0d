------------------------------- MODULE MCMvcc -------------------------------
(***************************************************************************)
(* Mvcc for TLC: the heaps a store may open with, and the symmetry of      *)
(* threads, version cells and memory that is not in use at the start.      *)
(***************************************************************************)
EXTENDS MvccInvariant, TLC

CONSTANTS p, q, o1, o2

TwoPointers == p :> o1 @@ q :> o2
OneStored == p :> Block

InUse == {First[x] : x \in Ptrs}

Symmetry == Permutations(Threads) \cup Permutations(Log) \cup Permutations(Obj \ InUse)

\* With TwoPointers the two pointers can be exchanged along with their objects.
PointerSymmetry == Symmetry \cup {p :> q @@ q :> p @@ o1 :> o2 @@ o2 :> o1}

=============================================================================
