----------------------------- MODULE Allocator -----------------------------
(***************************************************************************)
(* Memory for objects and version cells: LogicalAddressSpace::alloc takes  *)
(* a page from a source (src/src/las.rs, src/src/source/mod.rs), and the   *)
(* GenericAllocator of each transaction carves it up (src/src/vos.rs,      *)
(* LogicalMutRef::try_consume_bytes). Addresses and sizes are in bytes.    *)
(*                                                                         *)
(* The free list of a source is locked while a page is taken from it; the  *)
(* steps of GenericAllocator::alloc around that interleave with those of   *)
(* the allocators of other threads. The list is a set: the order of the    *)
(* pages makes no difference.                                              *)
(***************************************************************************)
EXTENDS Naturals

CONSTANTS
    Allocators,     \* the object and log allocators of running transactions
    Overhead,       \* the bytes each puts in front: an ObjectHeader, or nothing
    Memories,       \* the byte-addressable sources
    Offset,         \* where each of them is mapped
    Length,         \* its length
    PageSize,
    Sizes,          \* bound: the object sizes asked for
    Wrap,           \* 2^32: sizes are kept as u32
    None

ASSUME AllocatorAssumption ==
    /\ PageSize \in Nat \ {0} /\ Wrap \in Nat \ {0} /\ Sizes \subseteq Nat \ {0}
    /\ Overhead \in [Allocators -> Nat]
    /\ Offset \in [Memories -> Nat] /\ Length \in [Memories -> Nat]
    /\ \A m, n \in Memories : m # n =>
          Offset[m] + Length[m] <= Offset[n] \/ Offset[n] + Length[n] <= Offset[m]
    /\ None \notin [offset : Nat, len : Nat] /\ None \notin [want : Nat, size : Nat]
    /\ None \notin {"NoAvailableMemory", "AllocationTooLarge"}

VARIABLES
    free,       \* SourceAllocator.freelist: the addresses of the free pages
    active,     \* GenericAllocator.active: what is left of its page
    req,        \* GenericAllocator::alloc: the size, as wanted and as asked for
    full,       \* page_full: the page has been taken for this request
    out,        \* history: the slices handed out, and the size wanted
    error       \* the error of the last request

vars == <<free, active, req, full, out, error>>

-----------------------------------------------------------------------------

\* SourceAllocator::initialize on an empty source: every whole page after the
\* header and the metadata page.
Pages(m) == {Offset[m] + n * PageSize : n \in 2 .. ((Length[m] \div PageSize) - 1)}

\* get_best_byte_addressable: the first one in the address space.
Best(m) == m \in Memories /\ \A n \in Memories : Offset[m] <= Offset[n]

\* ObjectSize::new_with_usize and total.
U32(n) == n % Wrap

Init ==
    /\ free = [m \in Memories |-> Pages(m)]
    /\ active = [a \in Allocators |-> None]
    /\ req = [a \in Allocators |-> None]
    /\ full = [a \in Allocators |-> FALSE]
    /\ out = {}
    /\ error = [a \in Allocators |-> None]

\* GenericAllocator::alloc is called.
Alloc(a, n) ==
    /\ req[a] = None
    /\ req' = [req EXCEPT ![a] = [want |-> n + Overhead[a], size |-> U32(n) + Overhead[a]]]
    /\ full' = [full EXCEPT ![a] = FALSE]
    /\ error' = [error EXCEPT ![a] = None]
    /\ UNCHANGED <<free, active, out>>

\* There is no page yet: LogicalAddressSpace::alloc and allocate_page.
TakePage(a, m) ==
    /\ req[a] # None /\ active[a] = None
    /\ Best(m)
    /\ \E p \in free[m] :
          /\ free' = [free EXCEPT ![m] = @ \ {p}]
          /\ active' = [active EXCEPT ![a] = [offset |-> p, len |-> PageSize]]
    /\ full' = [full EXCEPT ![a] = TRUE]
    /\ UNCHANGED <<req, out, error>>

\* The request ends with an error.
Fails(a, e) ==
    /\ error' = [error EXCEPT ![a] = e]
    /\ req' = [req EXCEPT ![a] = None]
    /\ UNCHANGED <<free, active, full, out>>

NoPage(a) ==
    /\ req[a] # None /\ active[a] = None
    /\ \A m \in Memories : Best(m) => free[m] = {}
    /\ Fails(a, "NoAvailableMemory")

Fits(a) == req[a].size <= active[a].len

\* Deliberately wrong, for the mutation runs: the remainder keeps its address.
ConsumeInPlace(a) ==
    /\ req[a] # None /\ active[a] # None
    /\ Fits(a)
    /\ active' = [active EXCEPT ![a].len = @ - req[a].size]
    /\ out' = out \cup {[offset |-> active[a].offset, len |-> req[a].size,
                         want |-> req[a].want]}
    /\ req' = [req EXCEPT ![a] = None]
    /\ UNCHANGED <<free, full, error>>

\* Deliberately wrong, for the mutation runs: what is left is not looked at.
ConsumeUnchecked(a) ==
    /\ req[a] # None /\ active[a] # None
    /\ active' = [active EXCEPT ![a] = [offset |-> @.offset + req[a].size,
                                        len |-> @.len - req[a].size]]
    /\ out' = out \cup {[offset |-> active[a].offset, len |-> req[a].size,
                         want |-> req[a].want]}
    /\ req' = [req EXCEPT ![a] = None]
    /\ UNCHANGED <<free, full, error>>

\* LogicalMutRef::try_consume_bytes: the front of the page is handed out.
Consume(a) ==
    /\ req[a] # None /\ active[a] # None
    /\ Fits(a)
    /\ active' = [active EXCEPT ![a] = [offset |-> @.offset + req[a].size,
                                        len |-> @.len - req[a].size]]
    /\ out' = out \cup {[offset |-> active[a].offset, len |-> req[a].size,
                         want |-> req[a].want]}
    /\ req' = [req EXCEPT ![a] = None]
    /\ UNCHANGED <<free, full, error>>

\* Deliberately wrong, for the mutation runs: the page is rewound, not given up.
DiscardByRewinding(a) ==
    /\ req[a] # None /\ active[a] # None
    /\ ~Fits(a) /\ ~full[a]
    /\ active' = [active EXCEPT ![a].len = PageSize]
    /\ full' = [full EXCEPT ![a] = TRUE]
    /\ UNCHANGED <<free, req, out, error>>

\* The page has no room for the request: what is left of it is given up.
Discard(a) ==
    /\ req[a] # None /\ active[a] # None
    /\ ~Fits(a) /\ ~full[a]
    /\ active' = [active EXCEPT ![a] = None]
    /\ UNCHANGED <<free, req, full, out, error>>

\* Deliberately wrong, for the mutation runs: no second page is tried.
TooLargeAtOnce(a) ==
    /\ req[a] # None /\ active[a] # None
    /\ ~Fits(a)
    /\ Fails(a, "AllocationTooLarge")

\* A page of its own was not enough. The page stays active.
TooLarge(a) ==
    /\ req[a] # None /\ active[a] # None
    /\ ~Fits(a) /\ full[a]
    /\ Fails(a, "AllocationTooLarge")

\* The transaction ends, another one begins: the page is given up.
Drop(a) ==
    /\ req[a] = None /\ active[a] # None
    /\ active' = [active EXCEPT ![a] = None]
    /\ UNCHANGED <<free, req, full, out, error>>

Next ==
    \E a \in Allocators :
       \/ \E n \in Sizes : Alloc(a, n)
       \/ \E m \in Memories : TakePage(a, m)
       \/ NoPage(a) \/ Consume(a) \/ Discard(a) \/ TooLarge(a) \/ Drop(a)

Spec == Init /\ [][Next]_vars

-----------------------------------------------------------------------------
(***************************************************************************)
(* Properties.                                                             *)
(***************************************************************************)

Slice == [offset : Nat, len : Nat]
Disjoint(x, y) == x.offset + x.len <= y.offset \/ y.offset + y.len <= x.offset

\* Every variable holds a value of its type.
TypeOK ==
    /\ free \in [Memories -> SUBSET Nat]
    /\ active \in [Allocators -> Slice \cup {None}]
    /\ req \in [Allocators -> [want : Nat, size : Nat] \cup {None}]
    /\ full \in [Allocators -> BOOLEAN]
    /\ out \subseteq [offset : Nat, len : Nat, want : Nat]
    /\ error \in [Allocators -> {None, "NoAvailableMemory", "AllocationTooLarge"}]

\* "This enforces the invariant that there's only one live mutable reference for a
\* single memory location" (DESIGN.md:166): no two slices that were handed out
\* overlap, and none overlaps what an allocator has left of its page.
SlicesDisjoint ==
    /\ \A x, y \in out : x # y => Disjoint(x, y)
    /\ \A x \in out, a \in Allocators : active[a] # None => Disjoint(x, active[a])
    /\ \A a, b \in Allocators : a # b /\ active[a] # None /\ active[b] # None =>
          Disjoint(active[a], active[b])

\* "a single page can't span two locations" (LogicalSlice::to_page, las.rs:61): a
\* slice is in one page of one source and never in its header or metadata page,
\* so LogicalAddressSpace::read can translate it.
SlicesInPage ==
    \A x \in out : \E m \in Memories : \E p \in Pages(m) :
       p <= x.offset /\ x.offset + x.len <= p + PageSize

\* "tried to create an allocation larger than a pagesize" (error.rs:48): a request
\* that fits into a page is never turned down as too large, however little the
\* page in use has left.
TooLargeOnlyIfLarger ==
    [][\A a \in Allocators : error[a] = None /\ error'[a] = "AllocationTooLarge" =>
          req[a].size > PageSize]_vars

\* A slice lies in a page that has been taken from its source.
InTakenPage(x) ==
    \E m \in Memories : \E p \in Pages(m) \ free[m] :
       p <= x.offset /\ x.offset + x.len <= p + PageSize

\* The inductive invariant behind these properties: free pages are pages of their
\* source, all memory that was handed out or is about to be is in pages that are
\* not free any more, and a page taken for a request is untouched until the request
\* ends.
Inductive ==
    /\ TypeOK
    /\ \A m \in Memories : free[m] \subseteq Pages(m)
    /\ \A x \in out : InTakenPage(x)
    /\ \A a \in Allocators : active[a] # None => InTakenPage(active[a])
    /\ \A a \in Allocators : req[a] # None /\ full[a] =>
          active[a] # None /\ active[a].len = PageSize
    /\ SlicesDisjoint

(***************************************************************************)
(* What the documentation says and the code does not do.                   *)
(***************************************************************************)

\* "To enable heap growth, LAS can be simply extend by adding new sources"
\* (DESIGN.md:133): there is no memory only if no source has a page.
NoMemoryOnlyIfNone ==
    \A a \in Allocators : error[a] = "NoAvailableMemory" =>
       \A m \in Memories : free[m] = {}

\* "tried to create an allocation larger than a pagesize" (error.rs:48): a
\* request gets as many bytes as it asked for, or this error.
LargeEnough == \A x \in out : x.want <= x.len

=============================================================================
