---------------------------- MODULE MCAllocator ----------------------------
(***************************************************************************)
(* Allocator and Layout for TLC: an object and a log allocator on two      *)
(* sources, behind a file of three pages.                                  *)
(***************************************************************************)
EXTENDS Layout, TLC

CONSTANTS obj, log, m, n

Overheads == obj :> 2 @@ log :> 0

\* Five pages and the beginning of another one; then three pages.
Offsets == m :> 3 * PageSize @@ n :> 9 * PageSize
Lengths == m :> 5 * PageSize + 3 @@ n :> 3 * PageSize

=============================================================================
