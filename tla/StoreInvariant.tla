-------------------------- MODULE StoreInvariant --------------------------
(***************************************************************************)
(* The inductive invariant behind the properties of Store: what relates    *)
(* the metadata in the files, the address space that is being built from   *)
(* it, and the copy of the root location that root_alloc works on.         *)
(* StoreProofs.tla proves it; the run of Store checks it first.            *)
(***************************************************************************)
EXTENDS Store

\* Only a complete header or metadata page has a root location with something in
\* it: what replaces a page that is not valid loses nothing.
RootPagesValid ==
    \A f \in Files : /\ page[f][0].root # None => HasHeader(f)
                     /\ page[f][1].root # None => IsMapped(f)

\* No two sources have metadata for the same slice, whether they are open or not.
MetaInv ==
    /\ \A s \in Sources : IsMapped(s) => page[s][1].len = length[s] /\ length[s] >= 2
    /\ \A r, s \in Sources : r # s /\ IsMapped(r) /\ IsMapped(s) =>
          \/ page[r][1].offset + length[r] <= page[s][1].offset
          \/ page[s][1].offset + length[s] <= page[r][1].offset

\* The address space is the one in the metadata.
SpaceInv ==
    /\ \A s \in Mapped : HasHeader(s) /\ IsMapped(s) /\ base[s] = page[s][1].offset
    /\ \A m \in Memories : IsMapped(m) => m \in Mapped
    /\ Mapped # {} => \E s \in Mapped : IsLast(s, Mapped)
    /\ pc = "closed" => Mapped = {} /\ unallocated = <<>> /\ root = None

Elements(seq) == {seq[i] : i \in 1 .. Len(seq)}
Distinct(seq) == \A i, j \in 1 .. Len(seq) : seq[i] = seq[j] => i = j

\* While the sources are looked at, no slice that is in use is left out.
ScanInv ==
    pc = "scan" =>
       /\ pagesize \in PageSizes
       /\ \A s \in Sources : IsMapped(s) => s \in Mapped \cup Elements(todo)
       /\ Distinct(todo) /\ Distinct(unallocated)
       /\ Elements(todo) \cap (Mapped \cup Elements(unallocated)) = {}
       /\ \A s \in Elements(unallocated) :
             HasHeader(s) /\ ~IsMapped(s) /\ length[s] >= 2 /\ s \notin Mapped
       /\ root # None => \E s \in Mapped : root = base[s]

\* Address a is that of page n of s.
IsAt(a, s, n) == s \in Mapped /\ n \in 0 .. (length[s] - 1) /\ a = base[s] + n

\* A page that belongs to an allocation.
InUse(a, S) == \E s \in S, n \in Pages : IsAt(a, s, n) /\ n \notin free[s]

\* Two pages that differ in the root location only, as far as it matters here.
SamePage(p, q) ==
    /\ p.kind = q.kind
    /\ p.kind = "meta" => p.offset = q.offset /\ p.len = q.len

\* The root location is in one of the first two pages of a source, and the page it is
\* accessed in is in memory and, apart from the location, the same.
RootInv ==
    pc \in {"root", "flush_object", "flush_root"} =>
       /\ \E s \in Mapped, n \in {0, 1} : IsAt(root, s, n)
       /\ InUse(copy, Memories)
       /\ SamePage(PageAt(copy), PageAt(root))
       /\ pc = "root" => PageAt(copy) = PageAt(root)
       /\ pc # "root" /\ SourceAt(root) \in Files => Pointer(PageAt(root).root) = None

\* Address a is that of a complete object in a file, in a page that is not free.
Live(a) ==
    \E f \in Files : \E n \in Pages :
       Refers(a, f, n) /\ n >= 2 /\ page[f][n].kind = "object" /\ n \notin free[f]

\* What the root pointers in the files refer to.
LiveInv == \A a \in PersistedRoots : Live(a)

\* The object that is being flushed is complete, first in memory, then in a file.
ObjectInv ==
    /\ pc = "flush_object" =>
          InUse(object, Memories) /\ object # copy /\ PageAt(object).kind = "object"
    /\ pc = "flush_root" => Live(PageAt(copy).root)

\* What holds after a power failure, too: all but the root pointers.
Structure ==
    /\ TypeOK
    /\ PagesInside
    /\ RootPagesValid
    /\ MetaInv
    /\ SpaceInv
    /\ ScanInv
    /\ RootInv
    /\ ObjectInv

\* The inductive invariant of the store.
Inductive == Structure /\ LiveInv

=============================================================================
